---- MODULE Spec2Model ----
(***************************************************************************)
(* doc2md: document-to-Markdown converters, their path resolution and      *)
(* output naming policy, the auto router and the batch runner, modelled    *)
(* over an abstract filesystem and a wall clock in whole seconds.          *)
(*                                                                         *)
(* Strings are sequences of one-character strings, so that pathlib's       *)
(* name / stem / suffix / parent and str.endswith are computed, not        *)
(* assumed.  An optional value is <<>> (None) or <<v>>.                    *)
(***************************************************************************)
EXTENDS Integers, Sequences, FiniteSets, TLC

\* ------------------------------------------------------------------ bounds
\* conversions (tool calls) per behaviour
MaxCalls == 2
\* the clock runs from 0 to MaxClock seconds
MaxClock == 1
\* longest file_paths list handed to batch_convert
MaxBatch == 2

\* pages of a PDF
MaxPages == 2
\* slides of a presentation
MaxSlides == 2
\* block-level elements of a DOCX body
MaxBlocks == 3
\* columns and rows of a table
MaxCols == 2
MaxRows == 1
\* characters of a text given to clean_text
MaxText == 3

\* ------------------------------------------------------------ string helpers
None == <<>>

Some(v) == <<v>>

\* Python truthiness of an optional string: not None and not ""
Truthy(o) == o # None /\ o[1] # <<>>

EndsWith(s, suf) ==
    /\ Len(s) >= Len(suf)
    /\ SubSeq(s, Len(s) - Len(suf) + 1, Len(s)) = suf

StartsWith(s, pre) ==
    /\ Len(s) >= Len(pre)
    /\ SubSeq(s, 1, Len(pre)) = pre

\* str.rfind(c) + 1: the last index holding c, 0 when there is none
RFind(s, c) ==
    LET hits == {i \in 1..Len(s) : s[i] = c}
    IN  IF hits = {} THEN 0 ELSE CHOOSE i \in hits : \A j \in hits : j <= i

DigitChars == <<"0", "1", "2", "3", "4", "5", "6", "7", "8", "9">>

RECURSIVE Decimal(_)
\* str(n) for a natural number n
Decimal(n) ==
    IF n < 10 THEN <<DigitChars[n + 1]>>
    ELSE Decimal(n \div 10) \o <<DigitChars[(n % 10) + 1]>>

DOT_MD == <<".", "m", "d">>

\* ------------------------------------------------------------------ pathlib
\* Path(s).name: the final path component
PathName(s) == SubSeq(s, RFind(s, "/") + 1, Len(s))

\* the part of an absolute path before its last separator (at index i)
ParentAt(s, i) == IF i <= 1 THEN <<"/">> ELSE SubSeq(s, 1, i - 1)

\* Path(s).parent for an absolute path
PathParent(s) == ParentAt(s, RFind(s, "/"))

\* the part of a name from its last dot (at index i) on, unless that dot leads or ends it
SuffixAt(n, i) == IF 1 < i /\ i < Len(n) THEN SubSeq(n, i, Len(n)) ELSE <<>>

\* the part of a name before its suffix
StemAt(n, i) == IF 1 < i /\ i < Len(n) THEN SubSeq(n, 1, i - 1) ELSE n

NameSuffix(n) == SuffixAt(n, RFind(n, "."))

NameStem(n) == StemAt(n, RFind(n, "."))

\* Path(s).suffix
PathSuffix(s) == NameSuffix(PathName(s))

\* Path(s).stem
PathStem(s) == NameStem(PathName(s))

\* dir / name: an absolute right operand replaces the left one
PathJoin(dir, name) ==
    IF StartsWith(name, <<"/">>) THEN name ELSE dir \o <<"/">> \o name

\* --------------------------------------------------------------- the world
\* directories of the modelled filesystem
S_DIR == <<"/", "s">>

O_DIR == <<"/", "o">>

\* the process current directory (Path.cwd())
CWD == <<"/", "c">>

\* exists, but os.access(dir, W_OK) is false
RO_DIR == <<"/", "r">>

\* a directory that does not exist
NO_DIR == <<"/", "n">>

A_PDF == <<"a", ".", "p", "d", "f">>

A_DOCX == <<"a", ".", "d", "o", "c", "x">>

E_PDF == <<"e", ".", "p", "d", "f">>

\* a declared file name with a directory part
X_E_PDF == <<"x", "/">> \o E_PDF

Z_PDF == <<"z", ".", "p", "d", "f">>

\* a file named as a PDF whose content is not one
B_PDF == <<"b", ".", "p", "d", "f">>

A_MD == <<"a">> \o DOT_MD

UNKNOWN == <<"u", "n", "k", "n", "o", "w", "n">>

Formats == {"pdf", "docx", "pptx"}

\* file contents: a source document of some format, a file that was there
\* before, an empty (truncated) file, or written Markdown
Doc(fmt) == [kind |-> "doc", fmt |-> fmt, src |-> <<>>, text |-> <<>>]

OldFile == [kind |-> "old", fmt |-> "", src |-> <<>>, text |-> <<>>]

EmptyFile == [kind |-> "empty", fmt |-> "", src |-> <<>>, text |-> <<>>]

\* base64 payloads: "" , a well-formed encoding of data, a malformed one
B64Empty == [enc |-> "empty", data |-> EmptyFile]

B64Of(data) == [enc |-> "ok", data |-> data]

B64Bad == [enc |-> "bad", data |-> EmptyFile]

\* truthiness of the base64_content argument
B64Truthy(b) == b # None /\ b[1].enc # "empty"

VARIABLES fs, dirs, clock, calls, last, batch, loop

vars == <<fs, dirs, clock, calls, last, batch, loop>>

\* ------------------------------------------------------------- exceptions
Raise(type, tag, detail) == [type |-> type, msg |-> <<tag, detail>>]

\* faulty variant: the handler is written `except ValueError`
CaughtOnlyValueError(e) == e.type = "ValueError"

\* the classes `except Exception` catches: every exception the steps raise
CaughtByExceptException(e) ==
    e.type \in {"FileNotFoundError", "ValueError", "PermissionError",
                "IsADirectoryError", "OSError", "ParseError"}

\* str(e)
ExcStr(e) == e.msg

\* ----------------------------------------------------------- file_handler
\* tempfile.mkdtemp(prefix="doc2md_"): a directory name not in use
TempDir(k) == <<"/", "t">> \o Decimal(k)

IsTempDir(d) == StartsWith(d, <<"/", "t">>)

MkdTemp(d) ==
    TempDir(CHOOSE k \in 1..(Cardinality(d) + 1) :
                /\ TempDir(k) \notin d
                /\ \A j \in 1..(k - 1) : TempDir(j) \in d)

PathExists(p, f, d) == p \in DOMAIN f \/ p \in d

\* what a step hands back: an exception or a value, and the filesystem it leaves
SrcOut(exc, path, name, temp_dir, f, d) ==
    [exc |-> exc, path |-> path, name |-> name, temp_dir |-> temp_dir,
     fs |-> f, dirs |-> d]

\* if file_path: the path must exist and be a regular file
ResolvePath(path, f, d) ==
    IF ~PathExists(path, f, d) THEN
        SrcOut(Some(Raise("FileNotFoundError", "Source file not found: ", path)),
               <<>>, <<>>, None, f, d)
    ELSE IF path \notin DOMAIN f THEN
        SrcOut(Some(Raise("ValueError", "Source path is not a file: ", path)),
               <<>>, <<>>, None, f, d)
    ELSE SrcOut(None, path, PathName(path), None, f, d)

\* temp_path.write_bytes(data) in the directory mkdtemp made (d1 holds it): an
\* exception here leaves resolve_source_file before it returns temp_dir
WriteDecoded(temp_dir, temp_path, data, file_name, f, d1) ==
    IF PathParent(temp_path) \notin d1 THEN
        SrcOut(Some(Raise("FileNotFoundError", "No such file or directory: ", temp_path)),
               <<>>, <<>>, None, f, d1)
    ELSE IF temp_path \in d1 THEN
        SrcOut(Some(Raise("IsADirectoryError", "Is a directory: ", temp_path)),
               <<>>, <<>>, None, f, d1)
    ELSE SrcOut(None, temp_path, file_name, Some(temp_dir), (temp_path :> data) @@ f, d1)

\* temp_dir = Path(tempfile.mkdtemp(prefix="doc2md_")); temp_path = temp_dir / file_name
InTempDir(temp_dir, data, file_name, f, d) ==
    WriteDecoded(temp_dir, PathJoin(temp_dir, file_name), data, file_name, f,
                 d \cup {temp_dir})

\* if base64_content and file_name: decode, then write into a fresh temp dir
ResolveBase64(payload, file_name, f, d) ==
    IF payload.enc = "bad" THEN
        SrcOut(Some(Raise("ValueError", "Invalid base64 content: ", <<>>)),
               <<>>, <<>>, None, f, d)
    ELSE InTempDir(MkdTemp(d), payload.data, file_name, f, d)

\* faulty variant: the base64 branch is tried before the file_path branch
ResolveBase64First(file_path, base64_content, file_name, f, d) ==
    IF B64Truthy(base64_content) /\ Truthy(file_name) THEN
        ResolveBase64(base64_content[1], file_name[1], f, d)
    ELSE IF Truthy(file_path) THEN ResolvePath(file_path[1], f, d)
    ELSE
        SrcOut(Some(Raise("ValueError",
                          "Must provide either 'file_path' or both 'base64_content' and 'file_name'",
                          <<>>)),
               <<>>, <<>>, None, f, d)

resolve_source_file(file_path, base64_content, file_name, f, d) ==
    IF Truthy(file_path) THEN ResolvePath(file_path[1], f, d)
    ELSE IF B64Truthy(base64_content) /\ Truthy(file_name) THEN
        ResolveBase64(base64_content[1], file_name[1], f, d)
    ELSE
        SrcOut(Some(Raise("ValueError",
                          "Must provide either 'file_path' or both 'base64_content' and 'file_name'",
                          <<>>)),
               <<>>, <<>>, None, f, d)

\* the output directory resolve_output_path chooses
OutDirOf(source_path, output_dir, is_base64) ==
    IF Truthy(output_dir) THEN output_dir[1]
    ELSE IF is_base64 THEN CWD
    ELSE PathParent(source_path)

\* faulty variant: an explicit output_file_name is used as given, ".md" or not
MdNameAsGiven(source_name, output_file_name) ==
    IF Truthy(output_file_name) THEN output_file_name[1]
    ELSE PathStem(source_name) \o DOT_MD

\* the output file name before collision handling
MdNameOf(source_name, output_file_name) ==
    IF Truthy(output_file_name) THEN
        IF EndsWith(output_file_name[1], DOT_MD) THEN output_file_name[1]
        ELSE output_file_name[1] \o DOT_MD
    ELSE PathStem(source_name) \o DOT_MD

\* the name given to a target that exists when overwrite is false
TimestampName(out_path, now) ==
    PathStem(out_path) \o <<"_">> \o Decimal(now) \o DOT_MD

OutOut(exc, path) == [exc |-> exc, path |-> path]

\* faulty variant: an existing target gets a timestamped name whatever overwrite says
HandleExistingIgnoresOverwrite(out_dir, out_path, overwrite, f, d, now) ==
    IF PathExists(out_path, f, d)
    THEN OutOut(None, PathJoin(out_dir, TimestampName(out_path, now)))
    ELSE OutOut(None, out_path)

\* "Handle existing files": a timestamped name when the target exists and
\* overwrite is false
HandleExisting(out_dir, out_path, overwrite, f, d, now) ==
    IF PathExists(out_path, f, d) /\ ~overwrite
    THEN OutOut(None, PathJoin(out_dir, TimestampName(out_path, now)))
    ELSE OutOut(None, out_path)

\* the checks on the output directory, then the target path in it
ResolveIn(out_dir, md_name, overwrite, f, d, now) ==
    IF ~PathExists(out_dir, f, d) THEN
        OutOut(Some(Raise("FileNotFoundError", "Output directory does not exist: ", out_dir)), <<>>)
    ELSE IF out_dir = RO_DIR THEN
        OutOut(Some(Raise("PermissionError", "Output directory is not writable: ", out_dir)), <<>>)
    ELSE HandleExisting(out_dir, PathJoin(out_dir, md_name), overwrite, f, d, now)

resolve_output_path(source_name, source_path, output_dir, output_file_name, overwrite, is_base64, f, d, now) ==
    ResolveIn(OutDirOf(source_path, output_dir, is_base64),
              MdNameOf(source_name, output_file_name), overwrite, f, d, now)

WriteOut(exc, f) == [exc |-> exc, fs |-> f]

\* output_path.write_text(content): wfault is the fault the filesystem injects
\* ("none", or "io": the write fails after the file was opened and truncated)
write_markdown(output_path, content, wfault, f, d) ==
    IF PathParent(output_path) \notin d THEN
        WriteOut(Some(Raise("FileNotFoundError", "No such file or directory: ", output_path)), f)
    ELSE IF output_path \in d THEN
        WriteOut(Some(Raise("IsADirectoryError", "Is a directory: ", output_path)), f)
    ELSE IF wfault = "io" THEN
        WriteOut(Some(Raise("OSError", "write failed: ", output_path)),
                 (output_path :> EmptyFile) @@ f)
    ELSE WriteOut(None, (output_path :> content) @@ f)

\* shutil.rmtree(dir, ignore_errors=True): the directory and all below it go
RmTree(dir, f, d) ==
    [fs |-> [p \in {q \in DOMAIN f : ~StartsWith(q, dir \o <<"/">>)} |-> f[p]],
     dirs |-> {x \in d : x # dir /\ ~StartsWith(x, dir \o <<"/">>)}]

\* if temp_dir and temp_dir.exists(): shutil.rmtree(temp_dir, ignore_errors=True)
cleanup_temp_dir(temp_dir, f, d) ==
    IF temp_dir # None /\ temp_dir[1] \in d THEN RmTree(temp_dir[1], f, d)
    ELSE [fs |-> f, dirs |-> d]

\* ------------------------------------------------------------- converters
\* the document-model parser of a format (pymupdf.open, Document, Presentation)
\* accepts a file holding a document of that format and raises on any other
ParseDocument(fmt, path, f) ==
    IF f[path].kind = "doc" /\ f[path].fmt = fmt THEN None
    ELSE Some(Raise("ParseError", "cannot open document: ", path))

\* faulty variant: the opening delimiter is left out
FrontmatterWithoutOpener(source, fmt) == <<"yaml", "---\n">>

\* generate_frontmatter: "---\n" + yaml.dump(data) + "---\n"
generate_frontmatter(source, fmt) == <<"---\n", "yaml", "---\n">>

\* md_content = frontmatter + "\n" + body + "\n"
MdContent(source_name, fmt) ==
    [kind |-> "md", fmt |-> fmt, src |-> source_name,
     text |-> generate_frontmatter(source_name, fmt) \o <<"\n", "body", "\n">>]

\* ConversionResult(success=True, ...)
SuccessResult(output_path, source_name, fmt) ==
    [success |-> TRUE,
     output_path |-> Some(output_path),
     file_name |-> Some(PathName(output_path)),
     source_file |-> source_name,
     metadata |-> Some(fmt),
     error |-> None]

\* faulty variant: the failure result is built without its error
FailureResultWithoutError(file_path, file_name, e) ==
    [success |-> FALSE, output_path |-> None, file_name |-> None,
     source_file |-> UNKNOWN, metadata |-> None, error |-> None]

\* ConversionResult(success=False, source_file=file_name or (file_path or "unknown"), error=str(e))
FailureResult(file_path, file_name, e) ==
    [success |-> FALSE,
     output_path |-> None,
     file_name |-> None,
     source_file |-> IF Truthy(file_name) THEN file_name[1]
                     ELSE IF Truthy(file_path) THEN file_path[1]
                     ELSE UNKNOWN,
     metadata |-> None,
     error |-> Some(ExcStr(e))]

\* is_base64 = base64_content is not None
IsBase64(a) == a.base64_content # None

TryOut(exc, result, f) == [exc |-> exc, result |-> result, fs |-> f]

NoResult == FailureResult(None, None, Raise("", "", <<>>))

\* the end of the try block: write_markdown returned or raised (w)
AfterWrite(fmt, src, output_path, w) ==
    IF w.exc # None THEN TryOut(w.exc, NoResult, w.fs)
    ELSE TryOut(None, SuccessResult(output_path, src.name, fmt), w.fs)

\* resolve_output_path returned or raised (outp); then write_markdown
AfterResolveOutput(fmt, src, wfault, outp) ==
    IF outp.exc # None THEN TryOut(outp.exc, NoResult, src.fs)
    ELSE AfterWrite(fmt, src, outp.path,
                    write_markdown(outp.path, MdContent(src.name, fmt), wfault,
                                   src.fs, src.dirs))

\* the try block of a converter, after resolve_source_file returned src:
\* parse, build the content, resolve the output path, write
ConvertBody(fmt, a, src, wfault, now) ==
    IF ParseDocument(fmt, src.path, src.fs) # None
    THEN TryOut(ParseDocument(fmt, src.path, src.fs), NoResult, src.fs)
    ELSE AfterResolveOutput(fmt, src, wfault,
            resolve_output_path(src.name, src.path, a.output_dir, a.output_file_name,
                                a.overwrite, IsBase64(a), src.fs, src.dirs, now))

\* what a call leaves: a returned result or a raised exception, and the filesystem
CallOut(result, raised, f, d) == [result |-> result, raised |-> raised, fs |-> f, dirs |-> d]

\* return / except Exception as e: return ConversionResult(success=False, ...),
\* with the filesystem the finally clause left (fin)
ShellReturn(a, body, fin) ==
    IF body.exc = None THEN CallOut(Some(body.result), None, fin.fs, fin.dirs)
    ELSE IF CaughtByExceptException(body.exc[1]) THEN
        CallOut(Some(FailureResult(a.file_path, a.file_name, body.exc[1])), None,
                fin.fs, fin.dirs)
    ELSE CallOut(None, body.exc, fin.fs, fin.dirs)

\* finally: cleanup_temp_dir(temp_dir); temp_dir is what resolve_source_file returned
ShellFinally(a, src, body) ==
    ShellReturn(a, body, cleanup_temp_dir(src.temp_dir, body.fs, src.dirs))

\* the try block, entered with what resolve_source_file returned or raised
TryBlock(fmt, a, wfault, now, src) ==
    IF src.exc # None THEN TryOut(src.exc, NoResult, src.fs)
    ELSE ConvertBody(fmt, a, src, wfault, now)

\* the try statement: its block, then the finally clause and the return
ShellTry(fmt, a, wfault, now, src) ==
    ShellFinally(a, src, TryBlock(fmt, a, wfault, now, src))

\* try / except Exception / finally of convert_<fmt>_to_markdown
ConverterShell(fmt, a, wfault, f, d, now) ==
    ShellTry(fmt, a, wfault, now,
             resolve_source_file(a.file_path, a.base64_content, a.file_name, f, d))

convert_pdf_to_markdown(a, wfault, f, d, now) == ConverterShell("pdf", a, wfault, f, d, now)

convert_docx_to_markdown(a, wfault, f, d, now) == ConverterShell("docx", a, wfault, f, d, now)

convert_pptx_to_markdown(a, wfault, f, d, now) == ConverterShell("pptx", a, wfault, f, d, now)

\* CONVERTERS[fmt](...)
CONVERTERS(fmt, a, wfault, f, d, now) ==
    CASE fmt = "pdf" -> convert_pdf_to_markdown(a, wfault, f, d, now)
      [] fmt = "docx" -> convert_docx_to_markdown(a, wfault, f, d, now)
      [] fmt = "pptx" -> convert_pptx_to_markdown(a, wfault, f, d, now)

\* ------------------------------------------------------- document bodies
\* Text is a sequence of pieces: "\n" for each newline character, and strings
\* without a newline for what lies between.
\* sep.join(parts)
RECURSIVE Join(_, _)
Join(parts, sep) ==
    IF parts = <<>> THEN <<>>
    ELSE IF Len(parts) = 1 THEN parts[1]
    ELSE parts[1] \o sep \o Join(Tail(parts), sep)

\* build_metadata(source_format=..., page_count=..., slide_count=..., image_count=...)
build_metadata(source_format, page_count, slide_count, image_count, warnings) ==
    [source_format |-> source_format, page_count |-> page_count, slide_count |-> slide_count,
     has_images |-> image_count > 0, image_count |-> image_count,
     conversion_warnings |-> warnings]

\* a page as pymupdf reports it: its cleaned, stripped text, the number of its
\* images, and the Markdown of its tables
PdfPage(text, images, tables) == [text |-> text, images |-> images, tables |-> tables]

\* faulty variant: the text of a scanned page is left empty
PageTextAsExtracted(k, page) == page.text

\* the text of page k before images and tables are added: a page without text
\* but with images is announced as a scanned image
PageText(k, page) ==
    IF page.text = <<>> /\ page.images > 0
    THEN <<"*[Page ">> \o Decimal(k) \o <<" contains a scanned image with no extractable text]*">>
    ELSE page.text

\* "\n".join(f"![image](image_p{k}_{i}.png)" for i in 1..n)
ImageRefs(k, n) ==
    Join([i \in 1..n |-> <<"![image](image_p">> \o Decimal(k) \o <<"_">> \o Decimal(i) \o <<".png)">>],
         <<"\n">>)

\* faulty variant: pages are numbered from 0
PageSectionZeroBased(k, page) ==
    <<"<!-- Page ">> \o Decimal(k - 1) \o <<" -->", "\n", "\n">> \o PageText(k, page)
    \o (IF page.images > 0 THEN <<"\n", "\n">> \o ImageRefs(k, page.images) ELSE <<>>)
    \o (IF page.tables # <<>> THEN <<"\n", "\n">> \o Join(page.tables, <<"\n", "\n">>) ELSE <<>>)

\* page_section = f"<!-- Page {page_num + 1} -->\n\n{text}", k = page_num + 1
PageSection(k, page) ==
    <<"<!-- Page ">> \o Decimal(k) \o <<" -->", "\n", "\n">> \o PageText(k, page)
    \o (IF page.images > 0 THEN <<"\n", "\n">> \o ImageRefs(k, page.images) ELSE <<>>)
    \o (IF page.tables # <<>> THEN <<"\n", "\n">> \o Join(page.tables, <<"\n", "\n">>) ELSE <<>>)

\* body = "\n\n---\n\n".join(sections)
PdfBody(pages) ==
    Join([k \in 1..Len(pages) |-> PageSection(k, pages[k])], <<"\n", "\n", "---", "\n", "\n">>)

\* the pages announced as scanned images, one warning each
ScannedPages(pages) == {k \in 1..Len(pages) : pages[k].text = <<>> /\ pages[k].images > 0}

RECURSIVE TotalImages(_, _)
\* total_images after the first n pages
TotalImages(pages, n) == IF n = 0 THEN 0 ELSE TotalImages(pages, n - 1) + pages[n].images

RECURSIVE PdfWarnings(_, _)
\* warnings after the first n pages: one entry for each page without text but
\* with images
PdfWarnings(pages, n) ==
    IF n = 0 THEN <<>>
    ELSE PdfWarnings(pages, n - 1)
         \o (IF pages[n].text = <<>> /\ pages[n].images > 0
             THEN <<<<"Page ">> \o Decimal(n)
                      \o <<" appears to be a scanned image that could not be OCR'd">>>>
             ELSE <<>>)

\* what convert_pdf_to_markdown makes of a parsed document: the page sections,
\* the body and the metadata
PdfRender(pages) ==
    [sections |-> [k \in 1..Len(pages) |-> PageSection(k, pages[k])],
     body |-> PdfBody(pages),
     metadata |-> build_metadata("pdf", Some(Len(pages)), None, TotalImages(pages, Len(pages)),
                                 PdfWarnings(pages, Len(pages)))]

\* a shape of a slide: a placeholder (with its index), a text box, or a table
\* frame; text is its stripped text, one paragraph at level 0, or <<>>
PptxShape(kind, idx, text) == [kind |-> kind, idx |-> idx, text |-> text]

\* shape.has_text_frame
HasTextFrame(shape) == shape.kind \in {"placeholder", "textbox"}

\* the first shape (in slide order) among those at positions I, as a text
FirstText(shapes, I) == IF I = {} THEN <<>> ELSE shapes[CHOOSE i \in I : \A j \in I : i <= j].text

\* the title of a slide: the text of the first title placeholder (index 0); if
\* that gives none, the text of the first shape with a non-empty text frame
SlideTitle(shapes) ==
    IF FirstText(shapes, {i \in 1..Len(shapes) :
                            shapes[i].kind = "placeholder" /\ shapes[i].idx = 0}) # <<>>
    THEN FirstText(shapes, {i \in 1..Len(shapes) :
                              shapes[i].kind = "placeholder" /\ shapes[i].idx = 0})
    ELSE FirstText(shapes, {i \in 1..Len(shapes) :
                              HasTextFrame(shapes[i]) /\ shapes[i].text # <<>>})

\* _shape_to_markdown: the lines of a shape (a text line, or a table's Markdown)
ShapeLines(shape) ==
    IF HasTextFrame(shape) THEN (IF shape.text = <<>> THEN <<>> ELSE <<shape.text>>)
    ELSE <<<<"| table |">>>>

RECURSIVE BodyLines(_)
\* the body loop over the shapes: a shape with a text frame whose placeholder
\* index is 0 is skipped; every other shape adds its lines and an empty line
BodyLines(shapes) ==
    IF shapes = <<>> THEN <<>>
    ELSE IF shapes[1].kind = "placeholder" /\ shapes[1].idx = 0 THEN BodyLines(Tail(shapes))
    ELSE IF ShapeLines(shapes[1]) = <<>> THEN BodyLines(Tail(shapes))
    ELSE ShapeLines(shapes[1]) \o <<<<>>>> \o BodyLines(Tail(shapes))

\* faulty variant: the header never carries the title
SlideSectionUntitled(k, slide) ==
    Join(<<<<"## Slide ">> \o Decimal(k), <<>>>>
         \o BodyLines(slide.shapes)
         \o (IF slide.notes # <<>> THEN <<<<"> **Speaker Notes:** ">> \o slide.notes, <<>>>>
             ELSE <<>>),
         <<"\n">>)

\* "\n".join(slide_lines): the header, an empty line, the body lines, the notes
SlideSection(k, slide) ==
    Join(<<<<"## Slide ">> \o Decimal(k)
             \o (IF SlideTitle(slide.shapes) # <<>> THEN <<": ">> \o SlideTitle(slide.shapes)
                 ELSE <<>>),
           <<>>>>
         \o BodyLines(slide.shapes)
         \o (IF slide.notes # <<>> THEN <<<<"> **Speaker Notes:** ">> \o slide.notes, <<>>>>
             ELSE <<>>),
         <<"\n">>)

\* what convert_pptx_to_markdown makes of a parsed presentation.  In the body
\* loop, shape.placeholder_format is read of every shape with a text frame; the
\* library raises ValueError for one that is not a placeholder (a text box), and
\* hasattr lets that through.
PptxRender(slides) ==
    IF \E k \in 1..Len(slides) : \E i \in 1..Len(slides[k].shapes) :
            slides[k].shapes[i].kind = "textbox"
    THEN [raised |-> Some(Raise("ValueError", "shape is not a placeholder", <<>>)), result |-> None]
    ELSE [raised |-> None,
          result |-> Some([sections |-> [k \in 1..Len(slides) |-> SlideSection(k, slides[k])],
                           body |-> Join([k \in 1..Len(slides) |-> SlideSection(k, slides[k])],
                                         <<"\n", "\n">>),
                           metadata |-> build_metadata("pptx", None, Some(Len(slides)), 0, <<>>)])]

\* ------------------------------------------------------------ format_table
\* A cell is a text; a literal pipe character is the piece "|".
\* c.replace("|", "\\|")
EscapePipes(cell) == [i \in 1..Len(cell) |-> IF cell[i] = "|" THEN "\\|" ELSE cell[i]]

\* "| " + " | ".join(cells) + " |"
TableLine(cells) == <<"| ">> \o Join(cells, <<" | ">>) \o <<" |">>

\* num_cols = len(headers) if headers else (len(rows[0]) if rows else 0)
NumCols(headers, rows) ==
    IF headers # <<>> THEN Len(headers) ELSE IF rows # <<>> THEN Len(rows[1]) ELSE 0

\* the separator entries: one per column, from alignments as far as it goes
\* (an absent and an empty alignments list are both <<>>), "---" beyond
SepParts(alignments, num_cols) ==
    [i \in 1..num_cols |->
        IF i > Len(alignments) THEN <<"---">>
        ELSE IF alignments[i] = "center" THEN <<":---:">>
        ELSE IF alignments[i] = "right" THEN <<"---:">>
        ELSE <<"---">>]

\* list(row) + [""] * (num_cols - len(row)), cut to num_cols, pipes escaped
\* (the header row of an empty headers list is num_cols empty cells)
PaddedRow(row, num_cols) ==
    [i \in 1..num_cols |-> IF i <= Len(row) THEN EscapePipes(row[i]) ELSE <<>>]

\* format_table(headers, rows, alignments)
format_table(headers, rows, alignments) ==
    IF headers = <<>> /\ rows = <<>> THEN <<>>
    ELSE IF NumCols(headers, rows) = 0 THEN <<>>
    ELSE Join(<<TableLine(PaddedRow(headers, NumCols(headers, rows))),
                TableLine(SepParts(alignments, NumCols(headers, rows)))>>
              \o [r \in 1..Len(rows) |-> TableLine(PaddedRow(rows[r], NumCols(headers, rows)))],
              <<"\n">>)

\* -------------------------------------------------------------- clean_text
\* Here a text is the sequence of its code points.
\* faulty variant: the tab is removed with the other control characters
KeptExceptTab(c) == c = 10 \/ c >= 32

\* c == "\n" or c == "\t" or (ord(c) >= 32)
Kept(c) == c = 10 \/ c = 9 \/ c >= 32

\* "".join(c for c in text if ...)
clean_text(text) == SelectSeq(text, Kept)

\* ---------------------------------------------------------------- DOCX body
\* A style name is a sequence of pieces in which every decimal digit is a piece
\* of its own: "Heading 10" is <<"Heading", " ", "1", "0">>.
IsDigit(c) == \E i \in 1..10 : DigitChars[i] = c

RECURSIVE IntOf(_)
\* int(s) for a run of decimal digits
IntOf(run) ==
    IF run = <<>> THEN 0
    ELSE 10 * IntOf(SubSeq(run, 1, Len(run) - 1))
         + (CHOOSE i \in 1..10 : DigitChars[i] = run[Len(run)]) - 1

\* re.search(r"(\d+)", s).group(1): the leftmost longest run of digits, <<>> when
\* there is no match
FirstDigitRun(s) ==
    IF \A i \in 1..Len(s) : ~IsDigit(s[i]) THEN <<>>
    ELSE SubSeq(s,
                CHOOSE i \in 1..Len(s) : IsDigit(s[i]) /\ \A j \in 1..(i - 1) : ~IsDigit(s[j]),
                CHOOSE e \in 1..Len(s) :
                    /\ \E i \in 1..e : /\ \A j \in 1..(i - 1) : ~IsDigit(s[j])
                                       /\ \A j \in i..e : IsDigit(s[j])
                    /\ (e = Len(s) \/ ~IsDigit(s[e + 1])))

\* level = int(match.group(1)) if match else 1; level = min(level, 6)
HeadingLevel(style_name) ==
    IF FirstDigitRun(style_name) = <<>> THEN 1
    ELSE IF IntOf(FirstDigitRun(style_name)) < 6 THEN IntOf(FirstDigitRun(style_name))
    ELSE 6

\* '#' * n
Hashes(n) == [i \in 1..n |-> "#"]

\* a paragraph: its style name and its assembled, stripped inline text
Para(style_name, text) == [tag |-> "p", style_name |-> style_name, text |-> text, numPr |-> None]

\* a paragraph with numbering properties: w:numId and w:ilvl
ListPara(style_name, text, num_id, ilvl) ==
    [tag |-> "p", style_name |-> style_name, text |-> text,
     numPr |-> Some([num_id |-> num_id, ilvl |-> ilvl])]

\* a table, with the Markdown format_table makes of it ("" when it has no rows)
Tbl(md) == [tag |-> "tbl", style_name |-> <<>>, text |-> md, numPr |-> None]

\* "List Bullet" in style_name, "List Number" in style_name: the style names
\* of the model keep these words as one piece
InStyle(word, style_name) == \E i \in 1..Len(style_name) : style_name[i] = word

\* f"{num_id}_{indent_level}" and f"style_{style_name}"
NumKey(num_id, indent_level) == <<num_id, "_">> \o Decimal(indent_level)

StyleKey(style_name) == <<"style_">> \o style_name

\* list_counters.get(key, 0)
CounterGet(list_counters, key) ==
    IF key \in DOMAIN list_counters THEN list_counters[key] ELSE 0

\* faulty variant: every numbered paragraph restarts its counter
IncrementRestarts(list_counters, key) ==
    [k \in DOMAIN list_counters \cup {key} |-> IF k = key THEN 1 ELSE list_counters[k]]

\* list_counters[key] = list_counters.get(key, 0) + 1
Increment(list_counters, key) ==
    [k \in DOMAIN list_counters \cup {key} |->
        IF k = key THEN CounterGet(list_counters, key) + 1 ELSE list_counters[k]]

\* "  " * indent_level
Indent(indent_level) == [i \in 1..indent_level |-> "  "]

\* what _paragraph_to_markdown returns, and the counters it leaves
ParaOut(md, list_counters) == [md |-> md, list_counters |-> list_counters]

\* a numbered item: the counter of its key is incremented and printed
NumberedItem(indent, key, text, list_counters) ==
    ParaOut(indent \o Decimal(CounterGet(Increment(list_counters, key), key)) \o <<". ">> \o text,
            Increment(list_counters, key))

\* _paragraph_to_markdown for a paragraph without hyperlinks
paragraph_to_markdown(para, list_counters) ==
    IF para.text = <<>> THEN ParaOut(<<>>, list_counters)
    ELSE IF para.style_name # <<>> /\ para.style_name[1] = "Heading"
    THEN ParaOut(Hashes(HeadingLevel(para.style_name)) \o <<" ">> \o para.text, list_counters)
    ELSE IF para.numPr # None
    THEN IF InStyle("List Number", para.style_name) \/ ~InStyle("List Bullet", para.style_name)
         THEN NumberedItem(Indent(para.numPr[1].ilvl),
                           NumKey(para.numPr[1].num_id, para.numPr[1].ilvl),
                           para.text, list_counters)
         ELSE ParaOut(Indent(para.numPr[1].ilvl) \o <<"- ">> \o para.text, list_counters)
    ELSE IF InStyle("List Bullet", para.style_name)
    THEN ParaOut(<<"- ">> \o para.text, list_counters)
    ELSE IF InStyle("List Number", para.style_name)
    THEN NumberedItem(<<>>, StyleKey(para.style_name), para.text, list_counters)
    ELSE ParaOut(para.text, list_counters)

\* md of one block-level element: _paragraph_to_markdown or _table_to_markdown
BlockMarkdown(b, list_counters) ==
    IF b.tag = "p" THEN paragraph_to_markdown(b, list_counters)
    ELSE ParaOut(b.text, list_counters)

\* one turn of the loop over the body's block-level elements
AppendBlock(sections, b, md) ==
    IF md # <<>> THEN Append(sections, md)
    ELSE IF b.tag = "p" /\ sections # <<>> /\ sections[Len(sections)] # <<>>
    THEN Append(sections, <<>>)
    ELSE sections

RECURSIVE BlockSections(_, _, _)
\* the sections after the loop over the remaining blocks
BlockSections(blocks, sections, list_counters) ==
    IF blocks = <<>> THEN sections
    ELSE BlockSections(Tail(blocks),
                       AppendBlock(sections, Head(blocks),
                                   BlockMarkdown(Head(blocks), list_counters).md),
                       BlockMarkdown(Head(blocks), list_counters).list_counters)

RECURSIVE BlockMarkdowns(_, _)
\* the values md takes in the loop, one per block
BlockMarkdowns(blocks, list_counters) ==
    IF blocks = <<>> THEN <<>>
    ELSE <<BlockMarkdown(Head(blocks), list_counters).md>>
         \o BlockMarkdowns(Tail(blocks), BlockMarkdown(Head(blocks), list_counters).list_counters)

\* the sections appended for images, comments and footnotes
AppendedSections(images, comments, footnotes) ==
    (IF images # <<>> THEN <<<<"\n", "## Embedded Images", "\n">>>> \o images ELSE <<>>)
    \o (IF comments # <<>> THEN <<<<>>>> \o comments ELSE <<>>)
    \o (IF footnotes # <<>> THEN <<<<"\n", "## Footnotes", "\n">>>> \o footnotes ELSE <<>>)

\* "\n\n\n\n" in text
HasFourNewlines(text) ==
    \E i \in 1..(Len(text) - 3) : \A j \in i..(i + 3) : text[j] = "\n"

RECURSIVE ReplaceFourByThree(_)
\* text.replace("\n\n\n\n", "\n\n\n"): the non-overlapping occurrences, from the left
ReplaceFourByThree(text) ==
    IF text = <<>> THEN <<>>
    ELSE IF Len(text) >= 4 /\ \A j \in 1..4 : text[j] = "\n"
    THEN <<"\n", "\n", "\n">> \o ReplaceFourByThree(SubSeq(text, 5, Len(text)))
    ELSE <<Head(text)>> \o ReplaceFourByThree(Tail(text))

RECURSIVE CollapseBlankLines(_)
\* while "\n\n\n\n" in body_text: body_text = body_text.replace(...)
CollapseBlankLines(text) ==
    IF HasFourNewlines(text) THEN CollapseBlankLines(ReplaceFourByThree(text)) ELSE text

\* the body text convert_docx_to_markdown makes of a parsed document
DocxBody(doc) ==
    CollapseBlankLines(Join(BlockSections(doc.blocks, <<>>, <<>>)
                              \o AppendedSections(doc.images, doc.comments, doc.footnotes),
                            <<"\n", "\n">>))

\* ------------------------------------------------------------- auto router
UpperChars == <<"A", "B", "C", "D", "E", "F", "G", "H", "I", "J", "K", "L", "M",
                "N", "O", "P", "Q", "R", "S", "T", "U", "V", "W", "X", "Y", "Z">>

LowerChars == <<"a", "b", "c", "d", "e", "f", "g", "h", "i", "j", "k", "l", "m",
                "n", "o", "p", "q", "r", "s", "t", "u", "v", "w", "x", "y", "z">>

\* str.lower()
Lower(s) ==
    [i \in 1..Len(s) |->
        IF \E k \in 1..26 : UpperChars[k] = s[i]
        THEN LowerChars[CHOOSE k \in 1..26 : UpperChars[k] = s[i]]
        ELSE s[i]]

EXT_PDF == <<".", "p", "d", "f">>

EXT_DOCX == <<".", "d", "o", "c", "x">>

EXT_PPTX == <<".", "p", "p", "t", "x">>

EXT_GZ == <<".", "g", "z">>

MIME_PDF == "application/pdf"

MIME_DOCX == "application/vnd.openxmlformats-officedocument.wordprocessingml.document"

MIME_PPTX == "application/vnd.openxmlformats-officedocument.presentationml.presentation"

\* EXTENSION_MAP.get(ext): the format, or None
EXTENSION_MAP(ext) ==
    IF ext = EXT_PDF THEN Some("pdf")
    ELSE IF ext = EXT_DOCX THEN Some("docx")
    ELSE IF ext = EXT_PPTX THEN Some("pptx")
    ELSE None

\* MIME_MAP.get(mime): the format, or None
MIME_MAP(mime) ==
    IF mime = MIME_PDF THEN Some("pdf")
    ELSE IF mime = MIME_DOCX THEN Some("docx")
    ELSE IF mime = MIME_PPTX THEN Some("pptx")
    ELSE None

\* the name without its encoding suffix (.gz, matched case-sensitively), if ext is one
StripEncoding(name, ext) ==
    IF ext = EXT_GZ THEN SubSeq(name, 1, Len(name) - Len(ext)) ELSE name

\* types_map: the MIME type of an extension
TypeOfExt(ext) ==
    IF ext = EXT_PDF THEN Some(MIME_PDF)
    ELSE IF ext = EXT_DOCX THEN Some(MIME_DOCX)
    ELSE IF ext = EXT_PPTX THEN Some(MIME_PPTX)
    ELSE None

\* mimetypes.guess_type(name)[0]: one encoding suffix (.gz) is stripped, then
\* the extension is looked up lower-cased
GuessType(name) == TypeOfExt(Lower(PathSuffix(StripEncoding(name, PathSuffix(name)))))

\* faulty variant: name = file_path or file_name
DetectNamePathFirst(file_path, file_name) ==
    IF Truthy(file_path) THEN file_path
    ELSE IF Truthy(file_name) THEN file_name
    ELSE None

\* name = file_name or file_path
DetectName(file_path, file_name) ==
    IF Truthy(file_name) THEN file_name
    ELSE IF Truthy(file_path) THEN file_path
    ELSE None

\* the format of a MIME type that is not None, or None
FormatOfMime(mime) == IF mime = None THEN None ELSE MIME_MAP(mime[1])

\* the extension step, then the guessed-MIME step, for name (None when no name)
DetectByName(name) ==
    IF name # None /\ EXTENSION_MAP(Lower(PathSuffix(name[1]))) # None
    THEN EXTENSION_MAP(Lower(PathSuffix(name[1])))
    ELSE IF name # None THEN FormatOfMime(GuessType(name[1]))
    ELSE None

_detect_format(file_path, file_name, mime_type) ==
    IF FormatOfMime(mime_type) # None THEN FormatOfMime(mime_type)
    ELSE DetectByName(DetectName(file_path, file_name))

UNSUPPORTED == "Unsupported file type. Supported formats: PDF, DOCX, PPTX. File: "

\* if not fmt: the failure result naming source = file_name or file_path or "unknown"
UnsupportedResult(source) ==
    [success |-> FALSE, output_path |-> None, file_name |-> None,
     source_file |-> source, metadata |-> None,
     error |-> Some(<<UNSUPPORTED, source>>)]

\* source = file_name or file_path or "unknown"
SourceLabel(name) == IF name # None THEN name[1] ELSE UNKNOWN

\* faulty variant: every detected format is handed to the PDF converter
RouteAllToPdf(fmt, a, wfault, f, d, now) ==
    IF fmt = None
    THEN CallOut(Some(UnsupportedResult(SourceLabel(DetectName(a.file_path, a.file_name)))),
                 None, f, d)
    ELSE CONVERTERS("pdf", a, wfault, f, d, now)

\* convert_auto once fmt is detected
Route(fmt, a, wfault, f, d, now) ==
    IF fmt = None
    THEN CallOut(Some(UnsupportedResult(SourceLabel(DetectName(a.file_path, a.file_name)))),
                 None, f, d)
    ELSE CONVERTERS(fmt[1], a, wfault, f, d, now)

convert_auto(a, mime_type, wfault, f, d, now) ==
    Route(_detect_format(a.file_path, a.file_name, mime_type), a, wfault, f, d, now)

\* ------------------------------------------------------------ batch runner
\* one iteration of `for fp in file_paths`: convert_auto(file_path=fp, ...)
BatchArgs(fp, output_dir, overwrite) ==
    [file_path |-> Some(fp), base64_content |-> None, file_name |-> None,
     output_dir |-> output_dir, output_file_name |-> None, overwrite |-> overwrite]

\* BatchResult(results=results, total=len(file_paths), successful=..., failed=...)
BatchResult(b) ==
    [results |-> b.results, total |-> Len(b.file_paths),
     successful |-> b.successful, failed |-> b.failed]

\* faulty variant: the else branch that counts a failure is missing
TallyWithoutFailures(b, result) ==
    [b EXCEPT !.results = Append(@, result),
              !.successful = IF result.success THEN @ + 1 ELSE @,
              !.i = @ + 1]

\* the tallies after one more result
Tally(b, result) ==
    [b EXCEPT !.results = Append(@, result),
              !.successful = IF result.success THEN @ + 1 ELSE @,
              !.failed = IF result.success THEN @ ELSE @ + 1,
              !.i = @ + 1]

\* faulty variant: the loop is left at the first failed result
LoopStepStopsAtFailure(b, out) ==
    IF out.raised # None THEN [b EXCEPT !.phase = "raised"]
    ELSE IF out.result[1].success THEN Tally(b, out.result[1])
    ELSE [Tally(b, out.result[1]) EXCEPT !.i = Len(b.file_paths) + 1]

\* the body of `for fp in file_paths` once convert_auto came back (out): an
\* exception leaves batch_convert, a result is tallied and the loop goes on
LoopStep(b, out) ==
    IF out.raised # None THEN [b EXCEPT !.phase = "raised"]
    ELSE Tally(b, out.result[1])

\* batch_convert as one call: the loop from item b.i on, in filesystem (f, d)
RECURSIVE batch_convert(_, _, _, _, _)
RECURSIVE BatchAfterItem(_, _, _, _)
batch_convert(b, w, f, d, now) ==
    IF b.i > Len(b.file_paths) THEN CallOut(Some(BatchResult(b)), None, f, d)
    ELSE BatchAfterItem(b, w, now,
                        convert_auto(BatchArgs(b.file_paths[b.i], b.output_dir, b.overwrite),
                                     None, w, f, d, now))

\* the rest of the loop once convert_auto came back (out) for item b.i
BatchAfterItem(b, w, now, out) ==
    IF out.raised # None THEN CallOut(None, out.raised, out.fs, out.dirs)
    ELSE batch_convert(Tally(b, out.result[1]), w, out.fs, out.dirs, now)

\* ------------------------------------------------------------------ requests
Args(fp, b64, fn, od, ofn, ow) ==
    [file_path |-> fp, base64_content |-> b64, file_name |-> fn,
     output_dir |-> od, output_file_name |-> ofn, overwrite |-> ow]

NoArgs == Args(None, None, None, None, None, FALSE)

SrcPath(name) == PathJoin(S_DIR, name)

A_PPTX == <<"a", ".", "p", "p", "t", "x">>

N_TXT == <<"n", ".", "t", "x", "t">>

O_NAME == <<"o">>

O_MD == <<"o">> \o DOT_MD

PdfPayload == B64Of(Doc("pdf"))

DocxPayload == B64Of(Doc("docx"))

\* the source modes: a path, a base64 payload with its declared name, both
PathSource == <<Some(SrcPath(A_PDF)), None, None>>

Base64Source == <<None, Some(PdfPayload), Some(E_PDF)>>

BothSources == <<Some(SrcPath(A_PDF)), Some(PdfPayload), Some(E_PDF)>>

\* source sides that are incomplete, malformed or unreadable, default output side
SourceSlice ==
    {Args(s[1], s[2], s[3], None, None, FALSE) :
        s \in {<<None, None, None>>,
               <<None, Some(PdfPayload), None>>,
               <<None, None, Some(E_PDF)>>,
               <<None, Some(B64Empty), Some(E_PDF)>>,
               <<None, Some(B64Bad), Some(E_PDF)>>,
               <<None, Some(PdfPayload), Some(X_E_PDF)>>,
               <<None, Some(DocxPayload), Some(E_PDF)>>,
               <<Some(SrcPath(Z_PDF)), None, None>>,
               <<Some(S_DIR), None, None>>,
               <<Some(SrcPath(A_PDF)), Some(B64Empty), None>>,
               BothSources}}

\* the output sides, for a path source and for a base64 source
OutputSlice ==
    {Args(PathSource[1], PathSource[2], PathSource[3], od, ofn, ow) :
        od \in {None, Some(O_DIR)},
        ofn \in {None, Some(O_NAME), Some(O_MD)},
        ow \in BOOLEAN}
    \cup {Args(Base64Source[1], Base64Source[2], Base64Source[3], od, None, ow) :
            od \in {None, Some(O_DIR)}, ow \in BOOLEAN}
    \cup {Args(s[1], s[2], s[3], Some(od), None, FALSE) :
            s \in {PathSource, Base64Source}, od \in {NO_DIR, RO_DIR}}

\* requests to the three converters
Requests ==
    {[tool |-> "pdf", args |-> a] : a \in SourceSlice \cup OutputSlice}
    \cup {[tool |-> "docx", args |-> Args(Some(SrcPath(n)), None, None, Some(O_DIR), None, FALSE)] :
            n \in {A_PDF, A_DOCX}}
    \cup {[tool |-> "pptx", args |-> Args(Some(SrcPath(A_PPTX)), None, None, Some(O_DIR), None, FALSE)]}

\* requests to convert_auto
AutoRequests ==
    {[mime |-> m, args |-> Args(s[1], s[2], s[3], Some(O_DIR), None, FALSE)] :
        m \in {None, Some(MIME_PDF)},
        s \in {<<None, None, None>>,
               <<Some(SrcPath(A_DOCX)), None, None>>,
               <<Some(SrcPath(N_TXT)), None, None>>,
               Base64Source}}

\* the paths batch_convert is handed
BatchPaths == {SrcPath(A_PDF), SrcPath(A_DOCX), SrcPath(Z_PDF), SrcPath(N_TXT), SrcPath(B_PDF)}

RECURSIVE SeqsUpTo(_, _)
\* the sequences over S of length at most n
SeqsUpTo(S, n) ==
    IF n = 0 THEN {<<>>}
    ELSE LET shorter == SeqsUpTo(S, n - 1)
         IN  shorter \cup {Append(q, x) : q \in {r \in shorter : Len(r) = n - 1}, x \in S}

WriteFaults == {"none", "io"}

\* --------------------------------------------------------------------- state
SourceFiles ==
    (SrcPath(A_PDF) :> Doc("pdf")) @@ (SrcPath(A_DOCX) :> Doc("docx"))
    @@ (SrcPath(A_PPTX) :> Doc("pptx")) @@ (SrcPath(B_PDF) :> Doc("docx"))

\* files the output directory may hold before the first call
PreExisting == {PathJoin(O_DIR, A_MD)}

IdleBatch ==
    [phase |-> "idle", file_paths |-> <<>>, output_dir |-> None, overwrite |-> FALSE,
     i |-> 1, results |-> <<>>, successful |-> 0, failed |-> 0, ret |-> None]

\* the event loop of the server process: the tool-call tasks it was handed, and
\* the task that holds the loop (0: none)
IdleLoop == [tasks |-> <<>>, cur |-> 0]

NoCall ==
    [kind |-> "none", tool |-> "", mime |-> None, args |-> NoArgs,
     result |-> None, raised |-> None]

\* ----------------------------------------------------------------- gateway
\* the names call_tool dispatches on
TOOL_NAMES ==
    {"convert_pdf_to_markdown", "convert_docx_to_markdown", "convert_pptx_to_markdown",
     "convert_auto", "batch_convert"}

\* the format a converter tool name stands for
ToolFormat(name) ==
    CASE name = "convert_pdf_to_markdown" -> "pdf"
      [] name = "convert_docx_to_markdown" -> "docx"
      [] name = "convert_pptx_to_markdown" -> "pptx"

\* f(**arguments): binding raises TypeError on an argument name the function does
\* not have, and on a missing required argument (only batch_convert has one)
BindError(name, shape) ==
    IF shape = "unknown_key"
    THEN Some(Raise("TypeError", "got an unexpected keyword argument ", <<>>))
    ELSE IF shape = "no_args" /\ name = "batch_convert"
    THEN Some(Raise("TypeError", "missing 1 required positional argument: ", <<>>))
    ELSE None

\* a call with file_path (file_paths, for the batch) given as a number.  A
\* converter's Path(file_path) raises TypeError inside its try block, and its
\* handler then builds ConversionResult(source_file=<the number>): the model
\* class either rejects the number (the ValidationError leaves the converter) or
\* coerces it to text, by the validation mode in force (coerce).  convert_auto's
\* Path(name) and batch_convert's `for fp in file_paths` raise TypeError outside
\* any handler.
WrongType(name, coerce, f, d) ==
    IF name \in {"convert_auto", "batch_convert"}
    THEN CallOut(None, Some(Raise("TypeError", "expected str, bytes or os.PathLike object", <<>>)), f, d)
    ELSE IF coerce
    THEN CallOut(Some(FailureResult(Some(<<"1">>), None,
                                    Raise("TypeError", "expected str, bytes or os.PathLike object", <<>>))),
                 None, f, d)
    ELSE CallOut(None, Some(Raise("ValidationError", "Input should be a valid string", <<>>)), f, d)

\* the if / elif chain of call_tool for a registered name: the tool's outcome
Dispatch(name, r, w, f, d, now) ==
    IF BindError(name, r.shape) # None THEN CallOut(None, BindError(name, r.shape), f, d)
    ELSE IF r.shape = "wrong_type" THEN WrongType(name, r.coerce, f, d)
    ELSE IF name = "convert_auto" THEN convert_auto(r.args, r.mime, w, f, d, now)
    ELSE IF name = "batch_convert"
    THEN batch_convert([IdleBatch EXCEPT !.phase = "run", !.file_paths = r.file_paths,
                                         !.output_dir = r.args.output_dir,
                                         !.overwrite = r.args.overwrite],
                       w, f, d, now)
    ELSE CONVERTERS(ToolFormat(name), r.args, w, f, d, now)

\* [TextContent(type="text", text=...)]
TextContent(text) == <<[type |-> "text", text |-> text]>>

\* faulty variant: the gateway handler is written `except ValueError`
CaughtByCallToolOnlyValueError(e) == e.type = "ValueError"

\* the classes the `except Exception` of call_tool catches: every exception the
\* tools, the binding and the serialisation raise
CaughtByCallTool(e) ==
    CaughtByExceptException(e) \/ e.type \in {"TypeError", "ValidationError", "AttributeError"}

\* what call_tool replies once the tool came back (out): the dump of the result
\* as JSON, or on an exception (of the tool, or sfault: of model_dump/json.dumps)
\* the JSON of {"success": false, "error": str(e)}; an exception the handler
\* does not catch leaves call_tool
ReplyTo(out, sfault) ==
    IF out.raised # None /\ CaughtByCallTool(out.raised[1])
    THEN CallOut(Some(TextContent(<<"json", [success |-> FALSE, error |-> ExcStr(out.raised[1])]>>)),
                 None, out.fs, out.dirs)
    ELSE IF out.raised # None THEN out
    ELSE IF sfault = None
    THEN CallOut(Some(TextContent(<<"json", out.result[1]>>)), None, out.fs, out.dirs)
    ELSE IF CaughtByCallTool(sfault[1])
    THEN CallOut(Some(TextContent(<<"json", [success |-> FALSE, error |-> ExcStr(sfault[1])]>>)),
                 None, out.fs, out.dirs)
    ELSE CallOut(None, sfault, out.fs, out.dirs)

call_tool(name, r, w, sfault, f, d, now) ==
    IF name \notin TOOL_NAMES
    THEN CallOut(Some(TextContent(<<"Unknown tool: ", name>>)), None, f, d)
    ELSE ReplyTo(Dispatch(name, r, w, f, d, now), sfault)

Init ==
    /\ \E pre \in SUBSET PreExisting : fs = [p \in pre |-> OldFile] @@ SourceFiles
    /\ dirs = {S_DIR, O_DIR, CWD, RO_DIR}
    /\ clock = 0
    /\ calls = 0
    /\ last = NoCall
    /\ batch = IdleBatch
    /\ loop = IdleLoop

\* the seconds that may pass before a call reads the clock
Elapsed == {dt \in 0..1 : clock + dt <= MaxClock}

\* a call to convert_pdf_to_markdown, convert_docx_to_markdown or convert_pptx_to_markdown
Convert ==
    /\ calls < MaxCalls
    /\ batch.phase # "run"
    /\ \E r \in Requests, w \in WriteFaults, dt \in Elapsed :
        \E out \in {CONVERTERS(r.tool, r.args, w, fs, dirs, clock + dt)} :
            /\ fs' = out.fs
            /\ dirs' = out.dirs
            /\ clock' = clock + dt
            /\ last' = [kind |-> "convert", tool |-> r.tool, mime |-> None, args |-> r.args,
                        result |-> out.result, raised |-> out.raised]
    /\ calls' = calls + 1
    /\ UNCHANGED <<batch, loop>>

\* a call to convert_auto
ConvertAuto ==
    /\ calls < MaxCalls
    /\ batch.phase # "run"
    /\ \E r \in AutoRequests, w \in WriteFaults, dt \in Elapsed :
        \E out \in {convert_auto(r.args, r.mime, w, fs, dirs, clock + dt)} :
            /\ fs' = out.fs
            /\ dirs' = out.dirs
            /\ clock' = clock + dt
            /\ last' = [kind |-> "auto", tool |-> "auto", mime |-> r.mime, args |-> r.args,
                        result |-> out.result, raised |-> out.raised]
    /\ calls' = calls + 1
    /\ UNCHANGED <<batch, loop>>

\* batch_convert is entered: results = [], successful = 0, failed = 0
BatchStart ==
    /\ batch.phase = "idle"
    /\ \E fps \in SeqsUpTo(BatchPaths, MaxBatch), od \in {None, Some(O_DIR), Some(NO_DIR)},
          ow \in BOOLEAN :
        batch' = [IdleBatch EXCEPT !.phase = "run", !.file_paths = fps,
                                   !.output_dir = od, !.overwrite = ow]
    /\ calls' = calls + 1
    /\ last' = [NoCall EXCEPT !.kind = "batch"]
    /\ UNCHANGED <<fs, dirs, clock, loop>>

\* one iteration of the loop of batch_convert
BatchItem ==
    /\ batch.phase = "run"
    /\ batch.i <= Len(batch.file_paths)
    /\ \E w \in WriteFaults, dt \in Elapsed :
        \E out \in {convert_auto(BatchArgs(batch.file_paths[batch.i], batch.output_dir,
                                           batch.overwrite),
                                 None, w, fs, dirs, clock + dt)} :
            /\ fs' = out.fs
            /\ dirs' = out.dirs
            /\ clock' = clock + dt
            /\ batch' = LoopStep(batch, out)
    /\ UNCHANGED <<calls, last, loop>>

\* batch_convert returns its BatchResult
BatchReturn ==
    /\ batch.phase = "run"
    /\ batch.i > Len(batch.file_paths)
    /\ batch' = [batch EXCEPT !.phase = "done", !.ret = Some(BatchResult(batch))]
    /\ UNCHANGED <<fs, dirs, clock, calls, last, loop>>

\* the arguments objects call_tool is handed for a tool: well-formed ones, one
\* with an argument name the tool does not have, the empty object, and one whose
\* file_path (file_paths) is a number; sfault is the exception serialising the
\* result raises, if any
GatewayRequest(shape, coerce, args, file_paths, sfault) ==
    [shape |-> shape, coerce |-> coerce, args |-> args, mime |-> None,
     file_paths |-> file_paths, sfault |-> sfault]

SerialiseFaults ==
    {None, Some(Raise("AttributeError", "object has no attribute 'model_dump'", <<>>))}

GatewayRequests(name) ==
    {GatewayRequest("unknown_key", FALSE, NoArgs, <<>>, None),
     GatewayRequest("no_args", FALSE, NoArgs, <<>>, None)}
    \cup {GatewayRequest("wrong_type", c, NoArgs, <<>>, None) :
            c \in IF name \in {"convert_auto", "batch_convert"} THEN {FALSE} ELSE BOOLEAN}
    \cup IF name = "batch_convert"
         THEN {GatewayRequest("ok", FALSE, Args(None, None, None, Some(O_DIR), None, FALSE), fps, sf) :
                 fps \in SeqsUpTo({SrcPath(A_PDF), SrcPath(Z_PDF)}, MaxBatch),
                 sf \in SerialiseFaults}
         ELSE {GatewayRequest("ok", FALSE, Args(Some(SrcPath(n)), None, None, Some(O_DIR), None, FALSE),
                              <<>>, sf) :
                 n \in {A_PDF, A_DOCX, Z_PDF}, sf \in SerialiseFaults}

\* a tool call arriving at the gateway
CallTool ==
    /\ calls < MaxCalls
    /\ batch.phase = "idle"
    /\ \E name \in TOOL_NAMES \cup {"other_tool"}, w \in WriteFaults, dt \in Elapsed :
        \E r \in GatewayRequests(name) :
            \E out \in {call_tool(name, r, w, r.sfault, fs, dirs, clock + dt)} :
                /\ fs' = out.fs
                /\ dirs' = out.dirs
                /\ clock' = clock + dt
                /\ last' = [kind |-> "tool", tool |-> name, mime |-> None, args |-> r,
                            result |-> out.result, raised |-> out.raised]
    /\ calls' = calls + 1
    /\ UNCHANGED <<batch, loop>>

Next == Convert \/ ConvertAuto

Spec == Init /\ [][Next]_vars

NextBatch == BatchStart \/ BatchItem \/ BatchReturn

SpecBatch == Init /\ [][NextBatch]_vars

\* ------------------------------------------------- functions applied alone
\* names handed to _detect_format as file_path or file_name: none, the empty
\* string, names with a known extension in either case, an unknown extension, an
\* encoding suffix (in either case) after a known extension, no extension
DetectNames ==
    {None, Some(<<>>), Some(SrcPath(A_PDF)), Some(<<"a", ".", "P", "D", "F">>), Some(A_DOCX),
     Some(N_TXT), Some(A_PDF \o EXT_GZ), Some(A_PDF \o <<".", "G", "Z">>), Some(<<"a">>)}

DetectMimes == {None, Some(""), Some(MIME_PDF), Some(MIME_DOCX), Some(MIME_PPTX), Some("text/plain")}

\* _detect_format applied to one triple of arguments
DetectCall ==
    /\ calls = 0
    /\ \E fp \in DetectNames, fn \in DetectNames, mt \in DetectMimes :
        last' = [kind |-> "detect", tool |-> "_detect_format", mime |-> mt,
                 args |-> Args(fp, None, fn, None, None, FALSE),
                 result |-> Some(_detect_format(fp, fn, mt)), raised |-> None]
    /\ calls' = calls + 1
    /\ UNCHANGED <<fs, dirs, clock, batch, loop>>

\* the documents pymupdf may hand over: up to MaxPages pages, each with or
\* without text, with up to two images, with or without a table
PdfDocs ==
    SeqsUpTo({PdfPage(t, i, tb) : t \in {<<>>, <<"text">>}, i \in 0..2,
                                  tb \in {<<>>, <<<<"| table |">>>>}},
             MaxPages)

\* the body and metadata of convert_pdf_to_markdown for one parsed document
RenderPdf ==
    /\ calls = 0
    /\ \E pages \in PdfDocs :
        last' = [kind |-> "pdf_body", tool |-> "convert_pdf_to_markdown", mime |-> None,
                 args |-> pages, result |-> Some(PdfRender(pages)), raised |-> None]
    /\ calls' = calls + 1
    /\ UNCHANGED <<fs, dirs, clock, batch, loop>>

\* slides: title and body placeholders; an empty title placeholder before a body
\* placeholder; a body placeholder alone; an empty title placeholder alone; a
\* title and a table; a title and a text box; a titled slide with notes; no shapes
PptxSlides ==
    {[shapes |-> s, notes |-> <<>>] :
        s \in {<<PptxShape("placeholder", 0, <<"T">>), PptxShape("placeholder", 1, <<"B">>)>>,
               <<PptxShape("placeholder", 0, <<>>), PptxShape("placeholder", 1, <<"B">>)>>,
               <<PptxShape("placeholder", 1, <<"B">>)>>,
               <<PptxShape("placeholder", 0, <<>>)>>,
               <<PptxShape("placeholder", 0, <<"T">>), PptxShape("table", 0, <<>>)>>,
               <<PptxShape("placeholder", 0, <<"T">>), PptxShape("textbox", 0, <<"X">>)>>,
               <<>>}}
    \cup {[shapes |-> <<PptxShape("placeholder", 0, <<"T">>)>>, notes |-> <<"N">>]}

\* the body and metadata of convert_pptx_to_markdown for one parsed presentation
RenderPptx ==
    /\ calls = 0
    /\ \E slides \in SeqsUpTo(PptxSlides, MaxSlides) :
        \E out \in {PptxRender(slides)} :
            last' = [kind |-> "pptx_body", tool |-> "convert_pptx_to_markdown", mime |-> None,
                     args |-> slides, result |-> out.result, raised |-> out.raised]
    /\ calls' = calls + 1
    /\ UNCHANGED <<fs, dirs, clock, batch, loop>>

\* style names: headings with the levels 1, 3, 6, 0, 7 and 10, one without a
\* digit, one with two numbers; and names that are not headings
DocxStyles ==
    {<<"Heading", " ", "1">>, <<"Heading", " ", "3">>, <<"Heading", " ", "6">>,
     <<"Heading", " ", "0">>, <<"Heading", " ", "7">>, <<"Heading", " ", "1", "0">>,
     <<"Heading">>, <<"Heading", "2", " ", "7">>,
     <<"Normal">>, <<"Title", " ", "1">>, <<"List Bullet">>, <<"List Number">>, <<>>}

\* _paragraph_to_markdown applied to one paragraph
RenderParagraph ==
    /\ calls = 0
    /\ \E style_name \in DocxStyles, text \in {<<>>, <<"T">>} :
        last' = [kind |-> "docx_paragraph", tool |-> "convert_docx_to_markdown", mime |-> None,
                 args |-> Para(style_name, text),
                 result |-> Some([md |-> paragraph_to_markdown(Para(style_name, text), <<>>).md]),
                 raised |-> None]
    /\ calls' = calls + 1
    /\ UNCHANGED <<fs, dirs, clock, batch, loop>>

\* block-level elements: a heading, a paragraph, an empty paragraph, a table, a
\* table without rows
DocxBlocks ==
    {Para(<<"Heading", " ", "1">>, <<"H">>), Para(<<"Normal">>, <<"x">>), Para(<<"Normal">>, <<>>),
     Tbl(<<"| h |", "\n", "| --- |">>), Tbl(<<>>)}

\* parsed documents: up to MaxBlocks blocks, with or without an image, a
\* comment and a footnote
DocxDocs ==
    {[blocks |-> b, images |-> i, comments |-> c, footnotes |-> n] :
        b \in SeqsUpTo(DocxBlocks, MaxBlocks),
        i \in {<<>>, <<<<"![embedded image 1](image_1.emf)">>>>},
        c \in {<<>>, <<<<"<!-- Comment (A): c -->">>>>},
        n \in {<<>>, <<<<"[^1]: f">>>>}}

\* the body text of convert_docx_to_markdown for one parsed document
RenderDocx ==
    /\ calls = 0
    /\ \E doc \in DocxDocs :
        last' = [kind |-> "docx_body", tool |-> "convert_docx_to_markdown", mime |-> None,
                 args |-> doc, result |-> Some([body |-> DocxBody(doc)]), raised |-> None]
    /\ calls' = calls + 1
    /\ UNCHANGED <<fs, dirs, clock, batch, loop>>

\* list paragraphs: numbered through numbering properties (two numbering ids,
\* two levels), a bullet and a heading with numbering properties, numbered by
\* style (two style names), an empty numbered paragraph, a plain paragraph
DocxListBlocks ==
    {ListPara(<<"List Paragraph">>, <<"a">>, "1", 0), ListPara(<<"List Paragraph">>, <<"b">>, "1", 1),
     ListPara(<<"List Number">>, <<"c">>, "2", 0), ListPara(<<"List Bullet">>, <<"d">>, "1", 0),
     ListPara(<<"Heading", " ", "1">>, <<"e">>, "1", 0), ListPara(<<"List Paragraph">>, <<>>, "1", 0),
     Para(<<"List Number">>, <<"f">>), Para(<<"List Number", " ", "2">>, <<"g">>),
     Para(<<"Normal">>, <<"x">>)}

\* the loop of convert_docx_to_markdown over a document of list paragraphs
RenderDocxLists ==
    /\ calls = 0
    /\ \E blocks \in SeqsUpTo(DocxListBlocks, MaxBlocks) :
        last' = [kind |-> "docx_lists", tool |-> "convert_docx_to_markdown", mime |-> None,
                 args |-> blocks,
                 result |-> Some([mds |-> BlockMarkdowns(blocks, <<>>),
                                  sections |-> BlockSections(blocks, <<>>, <<>>)]),
                 raised |-> None]
    /\ calls' = calls + 1
    /\ UNCHANGED <<fs, dirs, clock, batch, loop>>

\* cell texts: plain, with a pipe character, with a line break
TableCells == {<<"a">>, <<"x", "|", "y">>, <<"p", "\n", "q">>}

\* format_table applied to one table
RenderTable ==
    /\ calls = 0
    /\ \E headers \in SeqsUpTo(TableCells, MaxCols),
          rows \in SeqsUpTo(SeqsUpTo(TableCells, MaxCols), MaxRows),
          alignments \in {<<>>, <<"center">>, <<"right", "left", "center">>} :
        last' = [kind |-> "table", tool |-> "format_table", mime |-> None,
                 args |-> [headers |-> headers, rows |-> rows, alignments |-> alignments],
                 result |-> Some([md |-> format_table(headers, rows, alignments)]),
                 raised |-> None]
    /\ calls' = calls + 1
    /\ UNCHANGED <<fs, dirs, clock, batch, loop>>

\* code points: NUL, tab, newline, carriage return, unit separator, space, DEL,
\* e with acute accent
CodePoints == {0, 9, 10, 13, 31, 32, 127, 233}

\* clean_text applied to one text, and again to what it returned
CleanText ==
    /\ calls = 0
    /\ \E text \in SeqsUpTo(CodePoints, MaxText) :
        last' = [kind |-> "clean_text", tool |-> "clean_text", mime |-> None,
                 args |-> text,
                 result |-> Some([cleaned |-> clean_text(text),
                                  again |-> clean_text(clean_text(text))]),
                 raised |-> None]
    /\ calls' = calls + 1
    /\ UNCHANGED <<fs, dirs, clock, batch, loop>>

\* a declared file name that is an absolute path into the output directory
O_E_PDF == PathJoin(O_DIR, E_PDF)

\* resolve_source_file applied alone
ResolveSource ==
    /\ calls = 0
    /\ \E fp \in {None, Some(SrcPath(A_PDF))},
          b64 \in {None, Some(PdfPayload), Some(B64Bad)},
          fn \in {None, Some(E_PDF), Some(X_E_PDF), Some(O_E_PDF)} :
        \E out \in {resolve_source_file(fp, b64, fn, fs, dirs)} :
            /\ last' = [kind |-> "resolve_source", tool |-> "resolve_source_file", mime |-> None,
                        args |-> [file_path |-> fp, base64_content |-> b64, file_name |-> fn],
                        result |-> IF out.exc = None
                                   THEN Some([path |-> out.path, name |-> out.name,
                                              temp_dir |-> out.temp_dir])
                                   ELSE None,
                        raised |-> out.exc]
            /\ fs' = out.fs
            /\ dirs' = out.dirs
    /\ calls' = calls + 1
    /\ UNCHANGED <<clock, batch, loop>>

NextPure == DetectCall \/ RenderPdf \/ RenderPptx \/ RenderParagraph \/ RenderDocx \/ RenderDocxLists
                \/ RenderTable \/ CleanText \/ ResolveSource

SpecPure == Init /\ [][NextPure]_vars

\* requests in base64 mode: a PDF or a DOCX payload to convert_pdf_to_markdown,
\* declared under a plain name or under an absolute path into /o
DeclaredRequests ==
    {Args(None, Some(b64), Some(fn), od, None, FALSE) :
        b64 \in {PdfPayload, DocxPayload}, fn \in {E_PDF, O_E_PDF},
        od \in {None, Some(O_DIR), Some(NO_DIR)}}

\* a call to convert_pdf_to_markdown in base64 mode
ConvertDeclared ==
    /\ calls < MaxCalls
    /\ \E a \in DeclaredRequests, w \in WriteFaults, dt \in Elapsed :
        \E out \in {convert_pdf_to_markdown(a, w, fs, dirs, clock + dt)} :
            /\ fs' = out.fs
            /\ dirs' = out.dirs
            /\ clock' = clock + dt
            /\ last' = [kind |-> "convert", tool |-> "pdf", mime |-> None, args |-> a,
                        result |-> out.result, raised |-> out.raised]
    /\ calls' = calls + 1
    /\ UNCHANGED <<batch, loop>>

\* requests to convert_auto that give a path, with or without a declared name
\* and a MIME type
NamedAutoRequests ==
    {[mime |-> m, args |-> Args(Some(SrcPath(p)), None, fn, Some(O_DIR), None, FALSE)] :
        m \in {None, Some(MIME_PDF)}, p \in {A_PDF, A_DOCX},
        fn \in {None, Some(E_PDF), Some(A_DOCX)}}

\* a call to convert_auto with a path
ConvertAutoNamed ==
    /\ calls < MaxCalls
    /\ \E r \in NamedAutoRequests, w \in WriteFaults, dt \in Elapsed :
        \E out \in {convert_auto(r.args, r.mime, w, fs, dirs, clock + dt)} :
            /\ fs' = out.fs
            /\ dirs' = out.dirs
            /\ clock' = clock + dt
            /\ last' = [kind |-> "auto", tool |-> "auto", mime |-> r.mime, args |-> r.args,
                        result |-> out.result, raised |-> out.raised]
    /\ calls' = calls + 1
    /\ UNCHANGED <<batch, loop>>

NextDeclared == ConvertDeclared \/ ConvertAutoNamed

SpecDeclared == Init /\ [][NextDeclared]_vars

\* ---------------------------------------------------------------- event loop
\* the tool calls the transport may hand to the loop before any has returned
MaxTasks == 2

\* a call_tool task the loop was handed: the tool, its arguments, the handler's
\* position, and the converter's local variables (what resolve_source_file
\* returned, what the try block left)
Task(name, a) ==
    [name |-> name, args |-> a, pc |-> "pending",
     src |-> SrcOut(None, <<>>, <<>>, None, <<>>, {}),
     body |-> TryOut(None, NoResult, <<>>)]

\* the calls the loop model is handed: converter calls on a path and on a payload
LoopRequests ==
    {Args(Some(SrcPath(A_PDF)), None, None, Some(O_DIR), None, FALSE),
     Args(None, Some(B64Of(Doc("pdf"))), Some(E_PDF), Some(O_DIR), None, FALSE),
     Args(None, Some(B64Of(Doc("docx"))), Some(A_DOCX), Some(O_DIR), None, FALSE)}

\* faulty variant: the converter is awaited (run off the loop), so the task
\* yields the loop while the conversion is under way
AwaitsConverter(pc) == pc \in {"resolved", "converted"}

\* whether the handler yields the loop at a position: call_tool is a coroutine
\* whose body has no await, it calls the synchronous converter directly
Awaits(pc) == FALSE

\* a task at position pc keeps the loop unless it awaits there
Holder(t, pc) == IF Awaits(pc) THEN 0 ELSE t

\* the task may take its next step: no other task holds the loop
MayRun(t) == loop.cur \in {0, t}

InProgress(t) == loop.tasks[t].pc \in {"resolved", "converted"}

\* the transport hands the loop a tool call; this may happen at any time
Accept ==
    /\ Len(loop.tasks) < MaxTasks
    /\ \E name \in {"convert_pdf_to_markdown", "convert_docx_to_markdown"}, a \in LoopRequests :
        loop' = [loop EXCEPT !.tasks = Append(@, Task(name, a))]
    /\ UNCHANGED <<fs, dirs, clock, calls, last, batch>>

\* the loop starts a task: call_tool dispatches to the converter, which
\* resolves its source
TaskResolve ==
    \E t \in DOMAIN loop.tasks :
        /\ loop.tasks[t].pc = "pending"
        /\ loop.cur = 0
        /\ \E src \in {resolve_source_file(loop.tasks[t].args.file_path,
                                           loop.tasks[t].args.base64_content,
                                           loop.tasks[t].args.file_name, fs, dirs)} :
            /\ fs' = src.fs
            /\ dirs' = src.dirs
            /\ loop' = [tasks |-> [loop.tasks EXCEPT ![t].pc = "resolved",
                                                     ![t].src = [src EXCEPT !.fs = <<>>, !.dirs = {}]],
                        cur |-> Holder(t, "resolved")]
        /\ UNCHANGED <<clock, calls, last, batch>>

\* the try block of the converter: parse, resolve the output path, write
TaskBody ==
    \E t \in DOMAIN loop.tasks, w \in WriteFaults, dt \in Elapsed :
        /\ loop.tasks[t].pc = "resolved"
        /\ MayRun(t)
        /\ \E body \in {TryBlock(ToolFormat(loop.tasks[t].name), loop.tasks[t].args, w, clock + dt,
                                 [loop.tasks[t].src EXCEPT !.fs = fs, !.dirs = dirs])} :
            /\ fs' = body.fs
            /\ loop' = [tasks |-> [loop.tasks EXCEPT ![t].pc = "converted",
                                                     ![t].body = [body EXCEPT !.fs = <<>>]],
                        cur |-> Holder(t, "converted")]
        /\ clock' = clock + dt
        /\ UNCHANGED <<dirs, calls, last, batch>>

\* the finally clause and the return of the converter, then the reply of
\* call_tool; the task is over and the loop is free
TaskReturn ==
    \E t \in DOMAIN loop.tasks :
        /\ loop.tasks[t].pc = "converted"
        /\ MayRun(t)
        /\ \E out \in {ReplyTo(ShellFinally(loop.tasks[t].args,
                                            [loop.tasks[t].src EXCEPT !.fs = fs, !.dirs = dirs],
                                            [loop.tasks[t].body EXCEPT !.fs = fs]),
                               None)} :
            /\ fs' = out.fs
            /\ dirs' = out.dirs
            /\ last' = [kind |-> "tool", tool |-> loop.tasks[t].name, mime |-> None,
                        args |-> loop.tasks[t].args,
                        result |-> out.result, raised |-> out.raised]
        /\ loop' = [tasks |-> [loop.tasks EXCEPT ![t].pc = "done"], cur |-> 0]
        /\ calls' = calls + 1
        /\ UNCHANGED <<clock, batch>>

NextLoop == Accept \/ TaskResolve \/ TaskBody \/ TaskReturn

SpecLoop == Init /\ [][NextLoop]_vars

NextGateway == CallTool

SpecGateway == Init /\ [][NextGateway]_vars

\* ------------------------------------------------------------------- claims
\* the result the last converter or convert_auto call returned, if it returned one
Returned == last.kind \in {"convert", "auto"} /\ last.result # None

Res == last.result[1]

\* the well-formedness C1 asks of one ConversionResult
ResultShapeOk(r) ==
    /\ r.success <=> (r.output_path # None /\ r.error = None)
    /\ ~r.success <=> (r.error # None /\ r.output_path = None)

\* C1: every ConversionResult a converter or convert_auto returns has success true
\* exactly when output_path is set and error is unset, and success false exactly
\* when error is set and output_path is unset.
C1_SuccessIffOutputPath == Returned => ResultShapeOk(Res)

\* C1 witness: convert_auto returned a success
C1_Witness == last.kind = "auto" /\ last.result # None /\ Res.success /\ Res.output_path # None

\* C3 (as claimed): when a converter has returned, no temporary source directory
\* is left, whatever path the call took.
C3_TempDirsRemoved == \A x \in dirs : ~IsTempDir(x)

\* C7: when a converter returns success, a file exists at output_path, its content
\* begins with "---\n", and file_name is the final component of output_path.
C7_SuccessFileWritten ==
    (Returned /\ Res.success) =>
        /\ Res.output_path # None
        /\ Res.output_path[1] \in DOMAIN fs
        /\ fs[Res.output_path[1]].text # <<>>
        /\ Head(fs[Res.output_path[1]].text) = "---\n"
        /\ Res.file_name = Some(PathName(Res.output_path[1]))

\* C7 witness: a base64 conversion succeeded into the current directory
C7_Witness ==
    /\ last.kind = "convert" /\ last.result # None /\ Res.success
    /\ last.args.file_path = None
    /\ PathJoin(CWD, <<"e">> \o DOT_MD) \in DOMAIN fs

\* a step that is one call to a converter
ConverterCall == calls' = calls + 1 /\ last'.kind = "convert"

\* two converter calls in succession, the second with the request of the first
\* except possibly for overwrite
SameRequestAgain ==
    /\ last.kind = "convert"
    /\ ConverterCall
    /\ last'.tool = last.tool
    /\ [last'.args EXCEPT !.overwrite = FALSE] = [last.args EXCEPT !.overwrite = FALSE]

BothSucceeded ==
    /\ last.result # None /\ last.result[1].success
    /\ last'.result # None /\ last'.result[1].success

\* C2 (as claimed): the same source converted twice in succession with
\* overwrite=false, both successfully, gives two distinct output paths, and both
\* files exist afterwards, whatever the directory held and however little time passed.
C2_TwiceWithoutOverwriteDistinct ==
    [][(SameRequestAgain /\ ~last.args.overwrite /\ ~last'.args.overwrite /\ BothSucceeded)
        => /\ last'.result[1].output_path # last.result[1].output_path
           /\ last.result[1].output_path[1] \in DOMAIN fs'
           /\ last'.result[1].output_path[1] \in DOMAIN fs']_vars

\* C5 (as claimed): the same source converted twice into the same directory under
\* the same name, the second time with overwrite=true, returns the output_path of
\* the first conversion, whatever overwrite was the first time.
C5_SecondOverwriteSamePath ==
    [][(SameRequestAgain /\ last'.args.overwrite /\ BothSucceeded)
        => last'.result[1].output_path = last.result[1].output_path]_vars

\* the name carries the "_<seconds>" suffix of a disambiguated target
HasTimestampSuffix(name) ==
    \E t \in 0..MaxClock : EndsWith(name, <<"_">> \o Decimal(t) \o DOT_MD)

\* C5 (amended): the same source converted twice into the same directory under the
\* same name, the second time with overwrite=true, returns the output_path of the
\* first conversion provided the first also ran with overwrite=true or found no
\* existing target (and so added no timestamp suffix); and a conversion with
\* overwrite=true never returns a name with a timestamp suffix.  (No request of
\* the model names a file with an underscore, so a suffix in a result was added.)
C5_OverwriteIdempotent ==
    [][/\ (/\ SameRequestAgain /\ last'.args.overwrite /\ BothSucceeded
           /\ (last.args.overwrite \/ ~HasTimestampSuffix(last.result[1].file_name[1])))
            => last'.result[1].output_path = last.result[1].output_path
       /\ (ConverterCall /\ last'.args.overwrite /\ last'.result # None
            /\ last'.result[1].success)
            => ~HasTimestampSuffix(last'.result[1].file_name[1])]_vars

\* C5 witness: the second of two overwrite=true conversions replaced the file that
\* was there
C5_Witness ==
    /\ calls = 2 /\ last.kind = "convert" /\ last.args.overwrite
    /\ last.result # None /\ Res.success
    /\ Res.output_path = Some(PathJoin(O_DIR, A_MD))
    /\ fs[PathJoin(O_DIR, A_MD)].kind = "md"

\* ---- source modes of a request
\* the request supplies a file_path
HasPath(a) == Truthy(a.file_path)

\* the request supplies the pair (base64_content, file_name)
HasPair(a) == B64Truthy(a.base64_content) /\ Truthy(a.file_name)

\* the request supplies a (non-empty) base64 payload
HasPayload(a) == B64Truthy(a.base64_content)

MUST_PROVIDE == "Must provide either 'file_path' or both 'base64_content' and 'file_name'"

\* C8 (as claimed): a request with neither source mode, and a request with both a
\* file_path and a base64 payload, are both answered with a failure.
C8_ExactlyOneModeOrFailure ==
    (last.kind = "convert" /\ last.result # None
        /\ \/ (~HasPath(last.args) /\ ~HasPair(last.args))
           \/ (HasPath(last.args) /\ HasPayload(last.args)))
    => ~Res.success

\* C8 (amended): a request that supplies neither a file_path nor the pair
\* (base64_content, file_name) fails validation: the converter returns the failure
\* "Must provide either ..." and leaves files and directories as they were.  A
\* request that supplies both is not rejected: file_path takes precedence, so a
\* success reports the file at file_path as its source, and a failure is never
\* the validation failure.
C8_NeitherFailsBothUsesPath ==
    [][ConverterCall =>
        /\ (~HasPath(last'.args) /\ ~HasPair(last'.args))
            => /\ last'.result # None
               /\ ~last'.result[1].success
               /\ last'.result[1].error = Some(<<MUST_PROVIDE, <<>>>>)
               /\ fs' = fs /\ dirs' = dirs
        /\ (HasPath(last'.args) /\ HasPayload(last'.args))
            => /\ last'.result # None
               /\ last'.result[1].success
                    => last'.result[1].source_file = PathName(last'.args.file_path[1])
               /\ ~last'.result[1].success
                    => last'.result[1].error[1][1] # MUST_PROVIDE]_vars

\* C8 witness: a request with both a file_path and a base64 payload succeeded
C8_Witness ==
    /\ last.kind = "convert" /\ last.result # None /\ Res.success
    /\ HasPath(last.args) /\ HasPair(last.args)

\* C9 (as claimed): with no output_dir, a conversion whose source is read from
\* file_path writes into the directory of that file, also when a base64 payload
\* came with the file_path, and one whose source is the decoded payload writes
\* into the current directory.  (Stated for requests whose base64_content is
\* absent or a non-empty payload.)
C9_DefaultOutputDir ==
    (last.kind = "convert" /\ last.result # None /\ Res.success /\ last.args.output_dir = None
        /\ (last.args.base64_content = None \/ HasPayload(last.args)))
    => IF HasPath(last.args)
       THEN PathParent(Res.output_path[1]) = PathParent(last.args.file_path[1])
       ELSE PathParent(Res.output_path[1]) = CWD

\* the name n with its extension (from the last dot on) replaced by ".md"
ExtReplaced(n, m) ==
    \E i \in 2..(Len(n) - 1) :
        /\ n[i] = "."
        /\ \A j \in (i + 1)..Len(n) : n[j] # "."
        /\ m = SubSeq(n, 1, i - 1) \o DOT_MD

\* the base name of the source a request names: of file_path, else of file_name
SourceBaseName(a) ==
    IF HasPath(a) THEN PathName(a.file_path[1]) ELSE PathName(a.file_name[1])

\* the output name a request asks for, as C10 states it
NameAsked(a, m) ==
    IF Truthy(a.output_file_name)
    THEN IF EndsWith(a.output_file_name[1], DOT_MD) THEN m = a.output_file_name[1]
         ELSE m = a.output_file_name[1] \o DOT_MD
    ELSE ExtReplaced(SourceBaseName(a), m)

SourceParses(tool, a, f) ==
    \/ HasPath(a) /\ a.file_path[1] \in DOMAIN f /\ f[a.file_path[1]] = Doc(tool)
    \/ /\ ~HasPath(a) /\ HasPair(a)
       /\ a.base64_content[1] = B64Of(Doc(tool))
       /\ RFind(a.file_name[1], "/") = 0

\* the message the claim expects for the request, or None when no listed fault applies
ExpectedError(tool, a, f, d) ==
    IF HasPath(a) /\ a.file_path[1] \notin DOMAIN f /\ a.file_path[1] \notin d
        THEN Some(<<"Source file not found: ", a.file_path[1]>>)
    ELSE IF HasPath(a) /\ a.file_path[1] \in d
        THEN Some(<<"Source path is not a file: ", a.file_path[1]>>)
    ELSE IF ~HasPath(a) /\ ~HasPair(a)
        THEN Some(<<MUST_PROVIDE, <<>>>>)
    ELSE IF ~HasPath(a) /\ a.base64_content[1] = B64Bad
        THEN Some(<<"Invalid base64 content: ", <<>>>>)
    ELSE IF SourceParses(tool, a, f) /\ Truthy(a.output_dir) /\ a.output_dir[1] \notin d
        THEN Some(<<"Output directory does not exist: ", a.output_dir[1]>>)
    ELSE IF SourceParses(tool, a, f) /\ a.output_dir = Some(RO_DIR)
        THEN Some(<<"Output directory is not writable: ", RO_DIR>>)
    ELSE None

\* C6: no fault escapes a converter: every call returns a ConversionResult and
\* raises nothing; a missing or non-regular source, invalid base64, an
\* unsatisfiable source mode and a missing or read-only output directory each give
\* success=false with the message of that fault; a document the parser rejects
\* gives success=false with the parser's message; every failure carries a message.
C6_NoFaultEscapes ==
    [][ConverterCall =>
        /\ last'.raised = None
        /\ last'.result # None
        /\ ExpectedError(last'.tool, last'.args, fs, dirs) # None
            => /\ ~last'.result[1].success
               /\ last'.result[1].error = ExpectedError(last'.tool, last'.args, fs, dirs)
        /\ (HasPath(last'.args) /\ last'.args.file_path[1] \in DOMAIN fs
                /\ fs[last'.args.file_path[1]] # Doc(last'.tool))
            => /\ ~last'.result[1].success
               /\ last'.result[1].error
                    = Some(<<"cannot open document: ", last'.args.file_path[1]>>)
        /\ ~last'.result[1].success => last'.result[1].error # None]_vars

\* C6 witness: a base64 conversion failed on a missing output directory
C6_Witness ==
    /\ last.kind = "convert" /\ last.result # None /\ ~Res.success
    /\ last.args.file_path = None
    /\ Res.error = Some(<<"Output directory does not exist: ", NO_DIR>>)

\* the number of successful results among the first n of a list
RECURSIVE CountSuccess(_, _)
CountSuccess(results, n) ==
    IF n = 0 THEN 0
    ELSE CountSuccess(results, n - 1) + (IF results[n].success THEN 1 ELSE 0)

\* C4: batch_convert returns len(results) = total = successful + failed =
\* len(file_paths), and results[i] is the result for file_paths[i]: it names
\* file_paths[i] (or its base name) as its source, and successful counts the
\* successes.
C4_BatchInvariant ==
    batch.phase = "done" =>
        /\ batch.ret # None
        /\ Len(batch.ret[1].results) = batch.ret[1].total
        /\ batch.ret[1].total = batch.ret[1].successful + batch.ret[1].failed
        /\ batch.ret[1].total = Len(batch.file_paths)
        /\ batch.ret[1].successful
            = CountSuccess(batch.ret[1].results, Len(batch.ret[1].results))
        /\ \A i \in 1..Len(batch.ret[1].results) :
            batch.ret[1].results[i].source_file
                \in {batch.file_paths[i], PathName(batch.file_paths[i])}

\* C4 witness: a batch of two different files returned one success after one failure
C4_Witness ==
    /\ batch.phase = "done"
    /\ Len(batch.file_paths) = 2
    /\ batch.file_paths[1] # batch.file_paths[2]
    /\ ~batch.ret[1].results[1].success
    /\ batch.ret[1].results[2].success

\* a step of the loop of batch_convert: one more path was handed to convert_auto
ItemStep == batch.phase = "run" /\ batch.i <= Len(batch.file_paths) /\ batch' # batch

\* the failures of resolving the source, detecting the type, parsing and
\* resolving the output directory (a write that fails midway is not one of them)
IsolatedFailure(r) ==
    /\ ~r.success
    /\ r.error[1][1] \in {"Source file not found: ", "Source path is not a file: ",
                          UNSUPPORTED, "cannot open document: ",
                          "Output directory does not exist: ",
                          "Output directory is not writable: "}

\* C11: batch failure isolation.  Every step of the loop tallies one result and
\* moves to the next path, whatever the result is, and never raises; an item that
\* fails (missing file, unsupported type, parse failure, output directory error)
\* leaves files and directories as they were; every item's result and output are
\* those of convert_auto called alone on that path in the same filesystem; and
\* the batch returns a BatchResult with one result per path.
C11_BatchFailureIsolation ==
    [][/\ ItemStep =>
            /\ batch'.phase = "run"
            /\ batch'.i = batch.i + 1
            /\ Len(batch'.results) = batch.i
            /\ IsolatedFailure(batch'.results[batch.i]) => (fs' = fs /\ dirs' = dirs)
            /\ \E w \in WriteFaults :
                \E alone \in {convert_auto(BatchArgs(batch.file_paths[batch.i], batch.output_dir,
                                                     batch.overwrite),
                                           None, w, fs, dirs, clock')} :
                    /\ alone.result = Some(batch'.results[batch.i])
                    /\ alone.fs = fs' /\ alone.dirs = dirs'
       /\ batch'.phase # "raised"
       /\ (batch.phase = "run" /\ batch'.phase = "done") =>
            /\ batch'.ret # None
            /\ Len(batch'.ret[1].results) = Len(batch.file_paths)]_vars

\* C11 witness: a batch returned in which a parse failure was followed by a
\* conversion whose output is on disk
C11_Witness ==
    /\ batch.phase = "done"
    /\ Len(batch.file_paths) = 2
    /\ ~batch.ret[1].results[1].success
    /\ batch.ret[1].results[1].error[1][1] = "cannot open document: "
    /\ batch.ret[1].results[2].success
    /\ batch.ret[1].results[2].output_path[1] \in DOMAIN fs
    /\ fs[batch.ret[1].results[2].output_path[1]].kind = "md"

\* a call_tool step for one of the five registered tools
RegisteredCall == calls' = calls + 1 /\ last'.kind = "tool" /\ last'.tool \in TOOL_NAMES

\* the reply {"success": false, "error": <message>} as one text item
ErrorReply(msg) == Some(<<[type |-> "text", text |-> <<"json", [success |-> FALSE, error |-> <<msg, <<>>>>]>>]>>)

\* C12: gateway catch-all.  For each of the five registered tools and every
\* arguments object, call_tool raises nothing and replies with exactly one text
\* item holding JSON; an unknown argument name, a missing required argument, a
\* wrongly typed value that makes the tool raise, and an exception while
\* serialising each give the JSON object {"success": false, "error": <message>}.
C12_GatewayCatchAll ==
    [][RegisteredCall =>
        /\ last'.raised = None
        /\ last'.result # None
        /\ Len(last'.result[1]) = 1
        /\ last'.result[1][1].type = "text"
        /\ last'.result[1][1].text[1] = "json"
        /\ last'.args.shape = "unknown_key"
            => last'.result = ErrorReply("got an unexpected keyword argument ")
        /\ (last'.args.shape = "no_args" /\ last'.tool = "batch_convert")
            => last'.result = ErrorReply("missing 1 required positional argument: ")
        /\ (last'.args.shape = "wrong_type" /\ last'.tool \in {"convert_auto", "batch_convert"})
            => last'.result = ErrorReply("expected str, bytes or os.PathLike object")
        /\ (last'.args.shape = "wrong_type" /\ ~last'.args.coerce
                /\ last'.tool \notin {"convert_auto", "batch_convert"})
            => last'.result = ErrorReply("Input should be a valid string")
        /\ last'.args.sfault # None
            => last'.result = ErrorReply("object has no attribute 'model_dump'")]_vars

\* C12 witness: a converter called with an unknown argument name was answered
\* with the error object
C12_Witness ==
    /\ last.kind = "tool" /\ last.tool = "convert_pdf_to_markdown"
    /\ last.args.shape = "unknown_key"
    /\ last.raised = None
    /\ last.result = ErrorReply("got an unexpected keyword argument ")

\* the format of a name by the extension table, after lower-casing its extension
ByExtension(name) == EXTENSION_MAP(Lower(PathSuffix(name)))

\* C13: format detection order.  A declared mime_type found in the MIME table
\* decides, whatever the names are; otherwise the name is file_name when one is
\* given (non-empty) and else file_path, and its lower-cased extension decides
\* when it is in the extension table; otherwise the MIME type guessed from that
\* name decides when it is in the MIME table; otherwise the result is none.
C13_DetectionOrder ==
    last.kind = "detect" =>
        IF last.mime # None /\ MIME_MAP(last.mime[1]) # None
        THEN last.result[1] = MIME_MAP(last.mime[1])
        ELSE IF Truthy(last.args.file_name)
        THEN IF ByExtension(last.args.file_name[1]) # None
             THEN last.result[1] = ByExtension(last.args.file_name[1])
             ELSE IF GuessType(last.args.file_name[1]) # None
             THEN last.result[1] = MIME_MAP(GuessType(last.args.file_name[1])[1])
             ELSE last.result[1] = None
        ELSE IF Truthy(last.args.file_path)
        THEN IF ByExtension(last.args.file_path[1]) # None
             THEN last.result[1] = ByExtension(last.args.file_path[1])
             ELSE IF GuessType(last.args.file_path[1]) # None
             THEN last.result[1] = MIME_MAP(GuessType(last.args.file_path[1])[1])
             ELSE last.result[1] = None
        ELSE last.result[1] = None

\* C13 witness: file_name's extension decided against file_path's, with a
\* declared MIME type that is not in the table
C13_Witness ==
    /\ last.kind = "detect"
    /\ last.mime = Some("text/plain")
    /\ last.args.file_path = Some(SrcPath(A_PDF))
    /\ last.args.file_name = Some(A_DOCX)
    /\ last.result = Some(Some("docx"))

\* a call to convert_auto
AutoCall == calls' = calls + 1 /\ last'.kind = "auto"

\* the source an unsupported request is named by: file_name, else file_path, else "unknown"
UnsupportedSource(a) ==
    IF Truthy(a.file_name) THEN a.file_name[1]
    ELSE IF Truthy(a.file_path) THEN a.file_path[1]
    ELSE <<"u", "n", "k", "n", "o", "w", "n">>

\* C14: when no format is detected, convert_auto returns a failure whose
\* source_file and error name the source (file_name, else file_path, else
\* "unknown") and whose error lists PDF, DOCX, PPTX, and it leaves files and
\* directories untouched (no converter ran, no temp directory, no output); when a
\* format is detected, the result and the filesystem are exactly those of that
\* format's converter called with the same six arguments.
C14_AutoRouting ==
    [][AutoCall =>
        IF _detect_format(last'.args.file_path, last'.args.file_name, last'.mime) = None
        THEN /\ last'.raised = None
             /\ last'.result # None
             /\ ~last'.result[1].success
             /\ last'.result[1].output_path = None
             /\ last'.result[1].source_file = UnsupportedSource(last'.args)
             /\ last'.result[1].error
                    = Some(<<"Unsupported file type. Supported formats: PDF, DOCX, PPTX. File: ",
                             UnsupportedSource(last'.args)>>)
             /\ fs' = fs /\ dirs' = dirs
        ELSE \E w \in WriteFaults :
                \E out \in {CONVERTERS(_detect_format(last'.args.file_path, last'.args.file_name,
                                                      last'.mime)[1],
                                       last'.args, w, fs, dirs, clock')} :
                    /\ last'.result = out.result
                    /\ last'.raised = out.raised
                    /\ fs' = out.fs /\ dirs' = out.dirs]_vars

\* C14 witness: convert_auto refused a .txt path as unsupported
C14_Witness ==
    /\ last.kind = "auto"
    /\ last.args.file_path = Some(SrcPath(N_TXT))
    /\ last.result # None /\ ~Res.success
    /\ Res.source_file = SrcPath(N_TXT)

\* C17 (as claimed): a conversion with overwrite=false that succeeds wrote to a
\* path at which no file existed when it started, so it overwrote nothing.
\* (Stated leniently: the empty leftover of an earlier failed write does not
\* count as an existing file.)
C17_NoOverwriteWritesFreshPath ==
    [][(ConverterCall /\ ~last'.args.overwrite
            /\ last'.result # None /\ last'.result[1].success)
        => \/ last'.result[1].output_path[1] \notin DOMAIN fs
           \/ fs[last'.result[1].output_path[1]] = EmptyFile]_vars

\* the positions in a body at which a page marker opens
PageMarkers(body) == {i \in 1..Len(body) : body[i] = "<!-- Page "}

\* C15: the body of a converted PDF with N pages holds exactly N page markers;
\* the k-th of them reads "<!-- Page k -->" and opens the section of page k (its
\* text follows after a blank line); the first opens the body and every later
\* one is preceded by a "---" line between blank lines; metadata.page_count = N.
C15_PdfPageSections ==
    last.kind = "pdf_body" =>
        /\ Res.metadata.page_count = Some(Len(last.args))
        /\ Cardinality(PageMarkers(Res.body)) = Len(last.args)
        /\ \A i \in PageMarkers(Res.body) :
            \E k \in {Cardinality({j \in PageMarkers(Res.body) : j <= i})} :
                /\ SubSeq(Res.body, i + 1, i + Len(Decimal(k)) + 3)
                        = Decimal(k) \o <<" -->", "\n", "\n">>
                /\ last.args[k].text # <<>>
                    => SubSeq(Res.body, i + Len(Decimal(k)) + 4,
                              i + Len(Decimal(k)) + 3 + Len(last.args[k].text))
                            = last.args[k].text
                /\ k = 1 => i = 1
                /\ k > 1 => /\ i > 5
                            /\ SubSeq(Res.body, i - 5, i - 1) = <<"\n", "\n", "---", "\n", "\n">>

\* C15 witness: a two-page PDF with text on both pages was rendered
C15_Witness ==
    /\ last.kind = "pdf_body"
    /\ Len(last.args) = 2
    /\ last.args[1].text # <<>> /\ last.args[2].text # <<>>
    /\ Res.metadata.page_count = Some(2)
    /\ Cardinality(PageMarkers(Res.body)) = 2

\* the positions in a body at which a slide heading opens
SlideHeadings(body) == {i \in 1..Len(body) : body[i] = "## Slide "}

\* the shapes of a slide that have a text frame with text in it
TextShapes(slide) ==
    {i \in 1..Len(slide.shapes) :
        slide.shapes[i].kind \in {"placeholder", "textbox"} /\ slide.shapes[i].text # <<>>}

\* C16: a converted PPTX with N slides has N slide sections in slide order; the
\* k-th begins "## Slide k: <title>" when the slide has a title to resolve (some
\* shape with text in its text frame; the text of the title placeholder when that
\* has text) and "## Slide k" on a line of its own otherwise; the body is the
\* sections joined by a blank line and holds exactly N slide headings;
\* metadata.slide_count = N and metadata.page_count is unset.
C16_PptxSlideSections ==
    (last.kind = "pptx_body" /\ last.result # None) =>
        /\ Res.metadata.slide_count = Some(Len(last.args))
        /\ Res.metadata.page_count = None
        /\ Len(Res.sections) = Len(last.args)
        /\ Cardinality(SlideHeadings(Res.body)) = Len(last.args)
        /\ Res.body = Join(Res.sections, <<"\n", "\n">>)
        /\ \A k \in 1..Len(last.args) :
            /\ SubSeq(Res.sections[k], 1, 1 + Len(Decimal(k))) = <<"## Slide ">> \o Decimal(k)
            /\ IF TextShapes(last.args[k]) = {}
               THEN Res.sections[k][2 + Len(Decimal(k))] = "\n"
               ELSE /\ Res.sections[k][2 + Len(Decimal(k))] = ": "
                    /\ Res.sections[k][3 + Len(Decimal(k))] \notin {"\n", ": "}
                    /\ Res.sections[k][4 + Len(Decimal(k))] = "\n"
            /\ \A i \in TextShapes(last.args[k]) :
                (last.args[k].shapes[i].kind = "placeholder" /\ last.args[k].shapes[i].idx = 0)
                    => <<Res.sections[k][3 + Len(Decimal(k))]>> = last.args[k].shapes[i].text

\* C16 witness: a two-slide presentation, the first slide titled, the second without text
C16_Witness ==
    /\ last.kind = "pptx_body" /\ last.result # None
    /\ Len(last.args) = 2
    /\ TextShapes(last.args[1]) # {}
    /\ TextShapes(last.args[2]) = {}
    /\ Res.metadata.slide_count = Some(2)

\* the number of times the piece t occurs in a text
Occurrences(text, t) == Cardinality({i \in 1..Len(text) : text[i] = t})

\* C18 (as claimed): on every slide of a converted PPTX for which a title was
\* resolved, by the title placeholder or by the fallback, the title text appears
\* in the slide's section once, in the heading, and not again as a body line.
C18_TitleNotRepeated ==
    (last.kind = "pptx_body" /\ last.result # None) =>
        \A k \in 1..Len(last.args) :
            TextShapes(last.args[k]) # {}
                => Occurrences(Res.sections[k], Res.sections[k][3 + Len(Decimal(k))]) = 1

\* three newline characters in a row
HasThreeNewlines(text) ==
    \E i \in 1..(Len(text) - 2) : \A j \in i..(i + 2) : text[j] = "\n"

\* C19: DOCX blank-line collapsing.  The final body text of a DOCX never has
\* more than two newline characters in a row, whatever the paragraphs, tables
\* and appended sections are (reaching a result at all is the termination of
\* the collapsing loop).
C19_AtMostTwoNewlines ==
    last.kind = "docx_body" => ~HasThreeNewlines(Res.body)

\* the levels the style name asks for: its first number, or its first digit,
\* brought into 1..6; 1 when it has no digit
Clamp(n) == IF n < 1 THEN 1 ELSE IF n > 6 THEN 6 ELSE n

AskedLevels(style_name) ==
    IF FirstDigitRun(style_name) = <<>> THEN {1}
    ELSE {Clamp(IntOf(FirstDigitRun(style_name))), Clamp(IntOf(<<FirstDigitRun(style_name)[1]>>))}

\* C20: DOCX heading level.  A non-empty paragraph whose style name starts
\* with "Heading" is emitted as L '#' characters, a space and the text, with L
\* the number in the style name clamped to 1..6, and 1 when there is none.
C20_HeadingLevelClamped ==
    (/\ last.kind = "docx_paragraph"
     /\ last.args.text # <<>>
     /\ last.args.style_name # <<>>
     /\ last.args.style_name[1] = "Heading")
        => \E L \in AskedLevels(last.args.style_name) :
                Res.md = Hashes(L) \o <<" ">> \o last.args.text

\* the key of an ordered list paragraph: <<>> for every other block (an empty
\* paragraph, a heading, a bullet, a plain paragraph, a table)
OrderedKey(b) ==
    IF b.tag # "p" \/ b.text = <<>> \/ (b.style_name # <<>> /\ b.style_name[1] = "Heading") THEN <<>>
    ELSE IF b.numPr # None
    THEN IF InStyle("List Bullet", b.style_name) /\ ~InStyle("List Number", b.style_name) THEN <<>>
         ELSE <<"numbering", b.numPr[1].num_id, b.numPr[1].ilvl>>
    ELSE IF InStyle("List Bullet", b.style_name) THEN <<>>
    ELSE IF InStyle("List Number", b.style_name) THEN <<"style", b.style_name>>
    ELSE <<>>

\* how many of the first k blocks carry the key of the k-th
RankInKey(blocks, k) ==
    Cardinality({j \in 1..k : OrderedKey(blocks[j]) = OrderedKey(blocks[k])})

\* C21: DOCX ordered-list numbering.  The n-th non-empty ordered list paragraph
\* of a (numbering-id, indent-level) key is emitted with the number n after two
\* spaces per level, the n-th numbered paragraph of a style name with the
\* number n; paragraphs of other keys, bullets, headings and empty paragraphs
\* do not change the count, which starts at zero for the document.
C21_ListNumbering ==
    last.kind = "docx_lists" =>
        \A k \in 1..Len(last.args) :
            OrderedKey(last.args[k]) # <<>> =>
                Res.mds[k] = (IF last.args[k].numPr # None THEN Indent(last.args[k].numPr[1].ilvl)
                              ELSE <<>>)
                             \o Decimal(RankInKey(last.args, k)) \o <<". ">> \o last.args[k].text

\* a document with two numbered paragraphs of one key around one of another key
C21_Witness ==
    /\ last.kind = "docx_lists"
    /\ Len(last.args) = 3
    /\ OrderedKey(last.args[1]) # <<>>
    /\ OrderedKey(last.args[2]) # <<>>
    /\ OrderedKey(last.args[1]) = OrderedKey(last.args[3])
    /\ OrderedKey(last.args[1]) # OrderedKey(last.args[2])
    /\ Res.mds[3] = Indent(0) \o <<"2", ". ">> \o last.args[3].text

\* the i-th smallest member of a set of numbers
NthOf(S, i) == CHOOSE k \in S : Cardinality({j \in S : j < k}) = i - 1

\* the positions in a page section that hold an image reference
ImagePositions(section) == {i \in 1..Len(section) : section[i] = "![image](image_p"}

\* C22: PDF scanned pages.  A page gets a warning, and the scanned-page sentence
\* for its text, exactly when it has no extracted text and at least one image;
\* the warnings name those pages by their 1-based number, one each, in page
\* order; a page with k images gets exactly k image references, after its text
\* and before its tables; image_count is the number of images of all pages and
\* has_images tells whether it is positive.
C22_ScannedPages ==
    last.kind = "pdf_body" =>
        /\ Len(Res.metadata.conversion_warnings) = Cardinality(ScannedPages(last.args))
        /\ \A i \in 1..Len(Res.metadata.conversion_warnings) :
            Res.metadata.conversion_warnings[i]
                = <<"Page ">> \o Decimal(NthOf(ScannedPages(last.args), i))
                  \o <<" appears to be a scanned image that could not be OCR'd">>
        /\ Res.metadata.image_count = TotalImages(last.args, Len(last.args))
        /\ Res.metadata.has_images <=> (\E k \in 1..Len(last.args) : last.args[k].images > 0)
        /\ \A k \in 1..Len(last.args) :
            \E start \in {5 + Len(Decimal(k))} :
                /\ IF k \in ScannedPages(last.args)
                   THEN /\ Res.sections[k][start] = "*[Page "
                        /\ Res.sections[k][start + Len(Decimal(k)) + 1]
                            = " contains a scanned image with no extractable text]*"
                   ELSE /\ SubSeq(Res.sections[k], start, start + Len(last.args[k].text) - 1)
                            = last.args[k].text
                        /\ \A i \in 1..Len(Res.sections[k]) : Res.sections[k][i] # "*[Page "
                /\ Cardinality(ImagePositions(Res.sections[k])) = last.args[k].images
                /\ \A i \in ImagePositions(Res.sections[k]) :
                    /\ i >= start + (IF k \in ScannedPages(last.args) THEN 2 + Len(Decimal(k))
                                     ELSE Len(last.args[k].text))
                    /\ \A j \in 1..Len(Res.sections[k]) :
                        Res.sections[k][j] = "| table |" => i < j

\* C22 witness: a page with text and images before a scanned page with two
\* images and a table; one warning, for page 2
C22_Witness ==
    /\ last.kind = "pdf_body"
    /\ Len(last.args) = 2
    /\ last.args[1].text # <<>> /\ last.args[1].images = 1
    /\ last.args[2].text = <<>> /\ last.args[2].images = 2 /\ last.args[2].tables # <<>>
    /\ Res.metadata.conversion_warnings
        = <<<<"Page ", "2", " appears to be a scanned image that could not be OCR'd">>>>
    /\ Res.metadata.image_count = 3

RECURSIVE SplitLines(_)
\* text.split("\n")
SplitLines(text) ==
    IF \A i \in 1..Len(text) : text[i] # "\n" THEN <<text>>
    ELSE <<SubSeq(text, 1, (CHOOSE i \in 1..Len(text) :
                                text[i] = "\n" /\ \A j \in 1..(i - 1) : text[j] # "\n") - 1)>>
         \o SplitLines(SubSeq(text, (CHOOSE i \in 1..Len(text) :
                                        text[i] = "\n" /\ \A j \in 1..(i - 1) : text[j] # "\n") + 1,
                              Len(text)))

\* a table line of n cells: "| ", the cells with " | " between them, " |"
IsTableLine(line, n) ==
    /\ Len(line) >= 2
    /\ line[1] = "| "
    /\ line[Len(line)] = " |"
    /\ Cardinality({i \in 1..Len(line) : line[i] = " | "}) = n - 1

\* C23: format_table.  Without columns (no headers and no rows, or no headers
\* and an empty first row) the output is empty; otherwise it is one header
\* line, one separator line and one line per row, each of as many cells as
\* there are columns, and no pipe character of a cell is left unescaped.
C23_TableShape ==
    last.kind = "table" =>
        IF NumCols(last.args.headers, last.args.rows) = 0 THEN Res.md = <<>>
        ELSE /\ Len(SplitLines(Res.md)) = 2 + Len(last.args.rows)
             /\ \A l \in 1..Len(SplitLines(Res.md)) :
                    IsTableLine(SplitLines(Res.md)[l], NumCols(last.args.headers, last.args.rows))
             /\ \A i \in 1..Len(Res.md) : Res.md[i] # "|"

\* the positions of a text whose character is not a control character below
\* 32, or is a newline or a tab
KeptPositions(text) == {i \in 1..Len(text) : text[i] >= 32 \/ text[i] \in {9, 10}}

\* C25: clean_text removes exactly the characters below code point 32 other
\* than newline and tab, keeps all others unchanged and in order, and applying
\* it a second time changes nothing.
C25_CleanText ==
    last.kind = "clean_text" =>
        /\ Len(Res.cleaned) = Cardinality(KeptPositions(last.args))
        /\ \A j \in 1..Len(Res.cleaned) :
            Res.cleaned[j] = last.args[NthOf(KeptPositions(last.args), j)]
        /\ Res.again = Res.cleaned

\* C25 witness: a text with a tab, a removed control character and a non-ASCII
\* character was cleaned
C25_Witness ==
    /\ last.kind = "clean_text"
    /\ last.args = <<9, 31, 233>>
    /\ Res.cleaned = <<9, 233>>
    /\ Res.again = <<9, 233>>

\* the files a call has created or changed outside the temporary directories
WrittenOutsideTemp ==
    {p \in DOMAIN fs :
        /\ ~IsTempDir(p)
        /\ \/ p \notin DOMAIN SourceFiles \cup PreExisting
           \/ (p \in DOMAIN SourceFiles /\ fs[p] # SourceFiles[p])
           \/ (p \in PreExisting /\ fs[p] # OldFile)}

\* C26: in base64 mode the decoded source is written only inside the fresh
\* temporary directory: the returned path lies under the returned temp
\* directory, whatever the declared file name is, and no file outside the
\* temporary directories is created or overwritten.
C26_DecodedSourceInsideTempDir ==
    (last.kind = "resolve_source" /\ last.args.file_path = None)
        => /\ WrittenOutsideTemp = {}
           /\ (last.result # None
                => StartsWith(Res.path, Res.temp_dir[1] \o <<"/">>))

\* the output directory of a call with the arguments a
CallOutputDir(a) ==
    IF Truthy(a.output_dir) THEN a.output_dir[1]
    ELSE IF IsBase64(a) \/ ~Truthy(a.file_path) THEN CWD
    ELSE PathParent(a.file_path[1])

\* the files of a directory, with their contents
FilesIn(f, dir) == [p \in {q \in DOMAIN f : PathParent(q) = dir} |-> f[p]]

\* the last call returned a failure that did not come from the write step
FailedBeforeWrite ==
    /\ last.kind = "convert"
    /\ last.result # None
    /\ ~Res.success
    /\ Res.error # None
    /\ Res.error[1][1] # "write failed: "
    /\ ~(Res.error[1][1] \in {"No such file or directory: ", "Is a directory: "}
         /\ ~IsTempDir(Res.error[1][2]))

\* C27: a conversion that fails in source resolution, parsing or output-path
\* resolution creates, changes and removes no file in its output directory:
\* the files there are as they were before the call.
C27_FailedCallLeavesOutput ==
    [][FailedBeforeWrite'
        => FilesIn(fs', CallOutputDir(last'.args)) = FilesIn(fs, CallOutputDir(last'.args))]_vars

\* C28: convert_auto applies the converter of the file it reads.  When a path
\* is given (and no MIME type is declared), the file read is the one at the
\* path, so the call does what the converter for that path's format does with
\* the same arguments, whether or not a file name is declared too.
C28_ConverterOfFileRead ==
    [][(/\ AutoCall
        /\ Truthy(last'.args.file_path)
        /\ last'.mime = None
        /\ DetectByName(last'.args.file_path) # None)
        => \E w \in WriteFaults :
            \E out \in {CONVERTERS(DetectByName(last'.args.file_path)[1], last'.args, w,
                                   fs, dirs, clock')} :
                /\ last'.result = out.result
                /\ last'.raised = out.raised
                /\ fs' = out.fs
                /\ dirs' = out.dirs]_vars

\* the positions of the successful results of the returned batch
Succeeded == {i \in 1..Len(batch.ret[1].results) : batch.ret[1].results[i].success}

\* C29: within one batch_convert call with overwrite=false, any two successful
\* results (for two different inputs) have distinct output paths, and when the
\* batch returns every reported output file holds the Markdown written for its
\* own input.
\* (Stated leniently: a file that a later failed write left empty does not
\* count against it.)
C29_BatchOutputsDistinct ==
    (batch.phase = "done" /\ ~batch.overwrite) =>
        /\ \A i, j \in Succeeded :
            batch.file_paths[i] # batch.file_paths[j]
                => batch.ret[1].results[i].output_path # batch.ret[1].results[j].output_path
        /\ \A i \in Succeeded :
            /\ batch.ret[1].results[i].output_path[1] \in DOMAIN fs
            /\ \/ fs[batch.ret[1].results[i].output_path[1]] = EmptyFile
               \/ /\ fs[batch.ret[1].results[i].output_path[1]].kind = "md"
                  /\ fs[batch.ret[1].results[i].output_path[1]].src
                        = PathName(batch.file_paths[i])

\* C30: every response of call_tool is a single text item whose text is JSON:
\* the serialised result of a registered tool, or the failure object
\* {"success": false, "error": ...}, also for a tool name that is not registered.
C30_EveryReplyIsJson ==
    last.kind = "tool" =>
        /\ last.raised = None
        /\ last.result # None
        /\ Len(Res) = 1
        /\ Res[1].type = "text"
        /\ Res[1].text[1] = "json"
        /\ last.tool \notin TOOL_NAMES => ~Res[1].text[2].success

\* the temp dir a conversion under way made is there, with the decoded source in it
TempStateIntact(t) ==
    loop.tasks[t].src.temp_dir # None =>
        /\ loop.tasks[t].src.temp_dir[1] \in dirs
        /\ loop.tasks[t].src.path \in DOMAIN fs

\* C24: conversion calls do not interleave: at any time at most one conversion
\* is between its source resolution and its return, it holds the loop, every
\* other call is still to start or has returned, and the temp dir it made is
\* its own: no other conversion's temp dir exists next to it.
C24_NoInterleaving ==
    \A t \in DOMAIN loop.tasks :
        InProgress(t) =>
            /\ loop.cur = t
            /\ \A u \in DOMAIN loop.tasks \ {t} : ~InProgress(u)
            /\ TempStateIntact(t)
            /\ \A d \in dirs : IsTempDir(d) => loop.tasks[t].src.temp_dir = Some(d)

\* a conversion that made a temp dir has run its try block and not yet returned,
\* while another call, handed to the loop, waits to start
C24_Witness ==
    \E t, u \in DOMAIN loop.tasks :
        /\ loop.tasks[t].pc = "converted"
        /\ loop.tasks[t].src.temp_dir # None
        /\ loop.tasks[u].pc = "pending"

====
